---- MODULE Spec2Model ----
(***************************************************************************)
(* tiny-disp: device session, plugin lifecycle and scheduler.              *)
(*                                                                         *)
(* Three state machines share this module:                                 *)
(*   MgrSpec   the PluginManager / DisplayPlugin API called in any order   *)
(*   Spec      main(): scan, plugin selection, run_plugin_loop, reconnect  *)
(*   LiveSpec  Spec with the scheduler thread's progress (weak fairness)   *)
(*   ScanSpec  find_msc_device / wait_for_msc_device and the legacy        *)
(*             Get_MSN_Device handshake                                    *)
(***************************************************************************)
EXTENDS Integers, Sequences, FiniteSets, TLC

VARIABLES
    manager,        \* PluginManager: current_plugin (0 = None) and the instances it created
    mode,           \* "interactive" | "plugin"           (args.interactive / args.plugin)
    plugin_to_run,  \* args.plugin: a plugin file name, or "missing"
    pc,             \* position of the main thread
    ser,            \* the serial session handle held by main()
    connected,      \* value returned by the last is_device_connected(ser)
    update_interval,\* run_plugin_loop local
    elapsed,        \* run_plugin_loop local
    tUpd,           \* seconds slept since the last update() of this run_plugin_loop call, -1 before the first
    kaLog,          \* times (relative to the last update) of the scheduler's keep-alive frames
    gap,            \* tUpd observed when the latest update() followed an earlier one, -1 if none
    gapKa,          \* kaLog observed at that update()
    rplExit,        \* why run_plugin_loop last returned
    failPending,    \* an update() failed and no plugin has been obtained since
    scan,           \* discovery state (find_msc_device, Get_MSN_Device)
    sel,            \* select_plugin_interactive: the prompt and its keep-alive thread
    zfs,            \* a ZFSPagesPlugin instance driven by run_plugin_loop
    wire,           \* a drawing call: its arguments and the frames it wrote
    text,           \* a bitmap-font call: its arguments, its draws and its result
    api             \* the last PluginManager / DisplayPlugin call and what it did

vars == <<manager, mode, plugin_to_run, pc, ser, connected, update_interval,
          elapsed, tUpd, kaLog, gap, gapKa, rplExit, failPending, scan, sel, zfs,
          wire, text, api>>

sideVars == <<sel, zfs, wire, text>>

auxVars == <<sel, zfs, wire, text, api>>

schedVars == <<mode, plugin_to_run, pc, ser, connected, update_interval,
               elapsed, tUpd, kaLog, gap, gapKa, rplExit, failPending>>

----------------------------------------------------------------------------
(* Bounds of the model *)

MaxInstances == 2
MaxSessions == 2
\* activations of one plugin instance
MaxInits == 2

(* Program constants *)

KeepaliveInterval == 3

----------------------------------------------------------------------------
(* Plugin modules plugin_clock, plugin_metrics, plugin_sample and their classes *)

\* the plugin_*.py files of the plugin directory, sorted (plugin_files.sort())
PluginFiles == <<"plugin_clock", "plugin_metrics", "plugin_sample">>

\* the names a plugin module binds, in the order its source binds them
Namespace(module) ==
    CASE module = "plugin_clock" ->
            <<"datetime", "pytz", "DisplayPlugin", "get_logger", "logger",
              "clear_screen", "get_config", "ClockPlugin">>
      [] module = "plugin_metrics" ->
            <<"psutil", "socket", "DisplayPlugin", "get_logger", "logger",
              "clear_screen", "MetricsPlugin">>
      [] module = "plugin_sample" ->
            <<"DisplayPlugin", "clear_screen", "ConfigLoader", "get_logger", "logger",
              "HelloWorldPlugin", "HelloWorldAdvancedPlugin">>

\* the names above in the order of Python's string comparison
Alphabetical ==
    <<"ClockPlugin", "ConfigLoader", "DisplayPlugin", "HelloWorldAdvancedPlugin",
      "HelloWorldPlugin", "MetricsPlugin", "clear_screen", "datetime", "get_config",
      "get_logger", "logger", "psutil", "pytz", "socket">>

\* dir(module): the module's names, sorted
dir(module) ==
    LET names == {Namespace(module)[i] : i \in 1..Len(Namespace(module))}
        bound(n) == n \in names
    IN SelectSeq(Alphabetical, bound)

\* isinstance(attr, type) and issubclass(attr, DisplayPlugin) and attr is not DisplayPlugin
IsPluginClass(attr) ==
    attr \in {"ClockPlugin", "MetricsPlugin", "HelloWorldPlugin", "HelloWorldAdvancedPlugin"}

\* the DisplayPlugin subclasses of a module in the order the source defines them
DefinedClasses(module) == SelectSeq(Namespace(module), IsPluginClass)

\* for attr_name in dir(module): the first DisplayPlugin subclass, then break / return
first_plugin_class(module) ==
    LET found == SelectSeq(dir(module), IsPluginClass)
    IN IF found = <<>> THEN "None" ELSE found[1]

\* the short names the model gives to the classes
ClassOf(attr) ==
    CASE attr = "ClockPlugin" -> "clock"
      [] attr = "MetricsPlugin" -> "metrics"
      [] attr = "HelloWorldAdvancedPlugin" -> "sample"
      [] attr = "HelloWorldPlugin" -> "hello"
      [] OTHER -> "None"

\* discover_plugins: self.plugins, one class per module
Plugins == [i \in 1..Len(PluginFiles) |-> ClassOf(first_plugin_class(PluginFiles[i]))]

PluginClasses == {Plugins[i] : i \in 1..Len(Plugins)}

get_update_interval(cls) ==
    CASE cls = "clock" -> 4
      [] cls = "metrics" -> 10
      [] cls = "sample" -> 2
      [] cls = "hello" -> 5

get_name(cls) ==
    CASE cls = "clock" -> "World Clock"
      [] cls = "metrics" -> "System Metrics"
      [] cls = "sample" -> "Hello World Advanced"
      [] cls = "hello" -> "Hello World Sample"

\* str.lower() on the plugin names and on the names a user types
Lower(s) ==
    CASE s = "World Clock" -> "world clock"
      [] s = "System Metrics" -> "system metrics"
      [] s = "SYSTEM METRICS" -> "system metrics"
      [] s = "Hello World Sample" -> "hello world sample"
      [] s = "Hello World Advanced" -> "hello world advanced"
      [] OTHER -> s

TypedNames == {"World Clock", "world clock", "SYSTEM METRICS", "Hello World Advanced", "nosuch"}

\* load_plugin_by_file: strip ".py", prepend "plugin_", import the module and
\* return its first plugin class
module_name(plugin_file) ==
    CASE plugin_file \in {"plugin_clock", "clock", "plugin_clock.py"} -> "plugin_clock"
      [] plugin_file \in {"plugin_metrics", "metrics", "plugin_metrics.py"} -> "plugin_metrics"
      [] plugin_file \in {"plugin_sample", "sample", "plugin_sample.py"} -> "plugin_sample"
      [] OTHER -> "None"

load_plugin_by_file(plugin_file) ==
    IF module_name(plugin_file) = "None" THEN "None"
    ELSE ClassOf(first_plugin_class(module_name(plugin_file)))

PluginArgs == {"plugin_clock", "metrics", "plugin_sample.py", "plugin_nosuch"}

\* cleanup() of the class writes frames to the device (both plugin_sample
\* classes clear the screen)
CleanupDraws(cls) == cls \in {"sample", "hello"}

----------------------------------------------------------------------------
(* DisplayPlugin *)

NewPlugin(cls) ==
    [cls |-> cls, is_running |-> FALSE, first_draw |-> TRUE,
     inits |-> 0, cleanups |-> 0, failed |-> FALSE]

\* mutant of start: a running plugin is initialized again
start_reinitializes(p, initOk) ==
    IF initOk
    THEN [p EXCEPT !.inits = @ + 1, !.is_running = TRUE, !.first_draw = TRUE]
    ELSE p

\* start(): initOk is what initialize() returns
start(p, initOk) ==
    IF p.is_running THEN p
    ELSE IF initOk
         THEN [p EXCEPT !.inits = @ + 1, !.is_running = TRUE, !.first_draw = TRUE]
         ELSE p

start_result(p, initOk) == p.is_running \/ initOk

\* mutant of stop: cleanup() is called whether or not the plugin is running
stop_always_cleans(p) ==
    [p EXCEPT !.cleanups = @ + 1, !.is_running = FALSE, !.first_draw = TRUE]

\* mutant of stop: first_draw is left as it was
stop_keeps_first_draw(p) ==
    IF p.is_running
    THEN [p EXCEPT !.cleanups = @ + 1, !.is_running = FALSE]
    ELSE p

stop_keeps_running(p) ==
    IF p.is_running
    THEN [p EXCEPT !.cleanups = @ + 1, !.first_draw = TRUE]
    ELSE p

stop(p) ==
    IF p.is_running
    THEN [p EXCEPT !.cleanups = @ + 1, !.is_running = FALSE, !.first_draw = TRUE]
    ELSE p

\* update() of the classes: every body is try/except Exception -> return False.
\* HelloWorldAdvancedPlugin.update never assigns first_draw.
\* r = "ok": drew and returned True; "io_fail": a write raised inside the draw;
\* "fault": the data source raised before anything was drawn.
update(p, r) ==
    IF r = "ok"
    THEN [p EXCEPT !.first_draw = IF p.cls = "sample" THEN @ ELSE FALSE]
    ELSE [p EXCEPT !.first_draw = IF p.cls = "hello" THEN FALSE ELSE @,
                   !.failed = TRUE]

\* start() calls initialize() only on a plugin that is not running
start_initializes(p) == ~p.is_running

\* what a completed update() of the class draws: "full" (clear_screen, the
\* static layout and the values), "dynamic" (the value regions only) or
\* "keepalive" (a keep-alive frame and no drawing). minute_changed: the
\* clock's minute differs from last_minute.
Redraw(p, minute_changed) ==
    CASE p.cls \in {"sample", "hello"} -> "full"
      [] p.cls = "metrics" -> IF p.first_draw THEN "full" ELSE "dynamic"
      [] p.cls = "clock" -> IF p.first_draw THEN "full"
                            ELSE IF minute_changed THEN "dynamic" ELSE "keepalive"

\* the last draw operation written by cleanup() of the class
CleanupLastDraw(cls) == IF CleanupDraws(cls) THEN "clear" ELSE "none"

----------------------------------------------------------------------------
(* PluginManager *)

NewManager == [current_plugin |-> 0, instances |-> <<>>]

Current(m) == m.instances[m.current_plugin]

get_plugin_by_index(index) ==
    IF 0 <= index /\ index < Len(Plugins) THEN Plugins[index + 1] ELSE "None"

get_plugin_by_name(name) ==
    LET hits == {i \in 1..Len(Plugins) : Lower(get_name(Plugins[i])) = Lower(name)}
    IN IF hits = {} THEN "None"
       ELSE Plugins[CHOOSE i \in hits : \A j \in hits : i <= j]

cleanup_skips_stop(m) == [m EXCEPT !.current_plugin = 0]

cleanup(m) ==
    IF m.current_plugin # 0
    THEN [m EXCEPT !.instances[m.current_plugin] = stop(@), !.current_plugin = 0]
    ELSE m

\* mutant of switch_plugin: when the new plugin fails to start, the outgoing
\* plugin is left running as the current plugin
switch_plugin_keeps_outgoing(m, cls, initOk) ==
    IF initOk
    THEN LET m1 == IF m.current_plugin # 0
                   THEN [m EXCEPT !.instances[m.current_plugin] = stop(@)]
                   ELSE m
         IN [current_plugin |-> Len(m1.instances) + 1,
             instances |-> Append(m1.instances, start(NewPlugin(cls), initOk))]
    ELSE [m EXCEPT !.instances = Append(@, NewPlugin(cls))]

\* switch_plugin: stop the current plugin, create and start the new one.
\* A start() that returns False or raises leaves current_plugin = None.
switch_plugin(m, cls, initOk) ==
    LET m1 == IF m.current_plugin # 0
              THEN [m EXCEPT !.instances[m.current_plugin] = stop(@), !.current_plugin = 0]
              ELSE m
        p == start(NewPlugin(cls), initOk)
        n == Len(m1.instances) + 1
    IN [current_plugin |-> IF start_result(NewPlugin(cls), initOk) THEN n ELSE 0,
        instances |-> Append(m1.instances, p)]

switch_to_index(m, index, initOk) ==
    IF get_plugin_by_index(index) # "None"
    THEN switch_plugin(m, get_plugin_by_index(index), initOk)
    ELSE m

switch_to_name(m, name, initOk) ==
    IF get_plugin_by_name(name) # "None"
    THEN switch_plugin(m, get_plugin_by_name(name), initOk)
    ELSE m

\* update_current_plugin: update() is reached only through a running current plugin
CanUpdate(m) == m.current_plugin # 0 /\ Current(m).is_running

\* mutant of update_current_plugin: a current plugin is updated whether or not
\* it is running
update_current_plugin_unguarded(m, r) ==
    IF m.current_plugin # 0
    THEN [m EXCEPT !.instances[m.current_plugin] = update(@, r)]
    ELSE m

update_current_plugin(m, r) ==
    IF CanUpdate(m)
    THEN [m EXCEPT !.instances[m.current_plugin] = update(@, r)]
    ELSE m

update_current_result(m, r) == CanUpdate(m) /\ r = "ok"

----------------------------------------------------------------------------
(* what one PluginManager / DisplayPlugin call did *)

\* op: the call; cls: the plugin it started or updated; was_running and
\* first_draw: that plugin's flags when the call began; initialized: initialize()
\* was called, init_ok: and returned True; ret: the call's return value; drew:
\* what update() drew; stopped: the class of the running plugin the call
\* deactivated, stopped_drawn: that plugin had drawn (its first_draw was False),
\* cleanup_draw: the last draw operation its cleanup() wrote, calls: the
\* cleanup() and initialize() calls a switch_plugin made, in the order it made them
NoCall ==
    [op |-> "none", cls |-> "None", was_running |-> FALSE, first_draw |-> FALSE,
     initialized |-> FALSE, init_ok |-> FALSE, ret |-> FALSE, drew |-> "none",
     stopped |-> "None", stopped_drawn |-> FALSE, cleanup_draw |-> "none",
     calls |-> <<>>]

ApiIdle == NoCall

\* the class of the running plugin that stop() / cleanup() / switch_plugin() stops
Deactivated(m) ==
    IF m.current_plugin # 0 /\ Current(m).is_running THEN Current(m).cls ELSE "None"

stop_call(m, op) ==
    [NoCall EXCEPT !.op = op,
                   !.stopped = Deactivated(m),
                   !.stopped_drawn = Deactivated(m) # "None" /\ ~Current(m).first_draw,
                   !.cleanup_draw = IF Deactivated(m) # "None"
                                    THEN CleanupLastDraw(Deactivated(m)) ELSE "none"]

start_call(p, initOk) ==
    [NoCall EXCEPT !.op = "start", !.cls = p.cls, !.was_running = p.is_running,
                   !.initialized = start_initializes(p),
                   !.init_ok = start_initializes(p) /\ initOk,
                   !.ret = start_result(p, initOk)]

switch_plugin_call(m, cls, initOk) ==
    [stop_call(m, "switch_plugin") EXCEPT
        !.cls = cls,
        !.calls = (IF Deactivated(m) # "None"
                   THEN << <<"cleanup", Deactivated(m)>> >> ELSE <<>>)
                  \o << <<"initialize", cls>> >>,
        !.initialized = start_initializes(NewPlugin(cls)),
        !.init_ok = start_initializes(NewPlugin(cls)) /\ initOk,
        !.ret = start_result(NewPlugin(cls), initOk)]

switch_to_index_call(m, index, initOk) ==
    IF get_plugin_by_index(index) # "None"
    THEN switch_plugin_call(m, get_plugin_by_index(index), initOk)
    ELSE [NoCall EXCEPT !.op = "switch_to_index"]

switch_to_name_call(m, name, initOk) ==
    IF get_plugin_by_name(name) # "None"
    THEN switch_plugin_call(m, get_plugin_by_name(name), initOk)
    ELSE [NoCall EXCEPT !.op = "switch_to_name"]

update_call(m, r, minute_changed) ==
    IF CanUpdate(m)
    THEN [NoCall EXCEPT !.op = "update", !.cls = Current(m).cls,
                        !.was_running = TRUE,
                        !.first_draw = Current(m).first_draw,
                        !.ret = update_current_result(m, r),
                        !.drew = IF r = "ok" THEN Redraw(Current(m), minute_changed)
                                 ELSE "none"]
    ELSE [NoCall EXCEPT !.op = "update"]

----------------------------------------------------------------------------
(* The serial session handle and the keep-alive primitives *)

NoSerial ==
    [id |-> 0, is_open |-> FALSE, failed |-> FALSE, late |-> FALSE,
     draw_raised |-> FALSE]

\* a handle returned by wait_for_msc_device after a successful handshake
NewSerial(id) ==
    [id |-> id, is_open |-> TRUE, failed |-> FALSE, late |-> FALSE,
     draw_raised |-> FALSE]

\* ser.write(cmd): ok = the write did not raise. `failed` records that a write on
\* this handle has raised, `late` that a frame was written after that.
ser_write(s, ok) ==
    [s EXCEPT !.late = @ \/ s.failed, !.failed = @ \/ ~(ok /\ s.is_open)]

\* the frames written by the drawing of the current plugin's update(): ok = no
\* write or read raised. `draw_raised` records that one did on this handle.
update_draw(s, ok) == [ser_write(s, ok) EXCEPT !.draw_raised = @ \/ ~ok]

\* mutant of ser_close: the port is left open
ser_close_leaves_open(s) == s

ser_close(s) == [s EXCEPT !.is_open = FALSE]

send_keep_alive(s, ok) == ser_write(s, ok)

\* three keep-alive frames; the first write that raises aborts the rest
wake_from_screensaver(s, ok) == ser_write(s, ok)

is_device_connected_always(raised) == TRUE

\* try: send_keep_alive(ser); return True / except: return False
is_device_connected(raised) == IF raised THEN FALSE ELSE TRUE

\* frames written by the current plugin's cleanup() when the manager stops it
CleanupIO(s, m, ok) ==
    IF m.current_plugin # 0 /\ Current(m).is_running /\ CleanupDraws(Current(m).cls)
    THEN ser_write(s, ok)
    ELSE s

----------------------------------------------------------------------------
(* Device discovery: bytes, bursts and the handshake tests *)

MaxPrefix == 2
MaxPorts == 2
MaxScans == 2

\* byte values that occur in the modelled traffic
NUL == 0
ChM == 77
ChS == 83
ChN == 78
ChC == 67
Ch0 == 48
Ch9 == 57
BadByte == 128

MSN == <<ChM, ChS, ChN>>
MSNCN == <<ChM, ChS, ChN, ChC, ChN>>
AckFrame == <<NUL>> \o MSNCN

\* null bytes received before the identification burst
Prefixes == {[i \in 1..n |-> NUL] : n \in 0..MaxPrefix}

\* nothing, "MSN", "MSN01", "\0MSN42", "M\x80SN", "\0MSx01"
Cores ==
    { <<>>,
      MSN,
      <<ChM, ChS, ChN, 48, 49>>,
      <<NUL, ChM, ChS, ChN, 52, 50>>,
      <<ChM, BadByte, ChS, ChN>>,
      <<NUL, ChM, ChS, 120, 48, 49>> }

Bursts == {p \o c : p \in Prefixes, c \in Cores}

Confirms ==
    { <<>>,
      AckFrame,
      MSNCN,
      <<NUL, ChM, ChS, ChN, 48, 49>> }

\* bytes.decode("gbk", errors="ignore") on this alphabet: ASCII bytes decode to
\* themselves, the lone byte 0x80 is not GBK and is dropped
decode_gbk_ignore(bytes) == SelectSeq(bytes, LAMBDA b : b < BadByte)

\* bytes.decode("gbk"): raises UnicodeDecodeError on a byte that is not GBK
gbk_decodable(bytes) == \A i \in 1..Len(bytes) : bytes[i] < BadByte

\* needle in hay
Contains(hay, needle) ==
    \E i \in 1..(Len(hay) - Len(needle) + 1) :
        SubSeq(hay, i, i + Len(needle) - 1) = needle

IsDigit(b) == Ch0 <= b /\ b <= Ch9

\* mutant of burst_accepted: any non-empty burst passes
burst_accepted_any(recv) == recv # <<>>

\* msc_display_lib.py:96-98  if recv: ... if "MSN" in recv_str
burst_accepted(recv) == recv # <<>> /\ Contains(decode_gbk_ignore(recv), MSN)

\* msc_display_lib.py:101-102  "MSNCN" in confirm
confirm_accepted(confirm) == Contains(decode_gbk_ignore(confirm), MSNCN)

\* legacy MSU2_MINI Get_MSN_Device: positions n (1-based here) where a null byte
\* is followed by "MSN" and two ASCII digits; only len(recv) > 5 is parsed
LegacyMatches(recv) ==
    {n \in 1..(Len(recv) - 5) :
        /\ recv[n] = NUL
        /\ recv[n + 1] = ChM /\ recv[n + 2] = ChS /\ recv[n + 3] = ChN
        /\ IsDigit(recv[n + 4]) /\ IsDigit(recv[n + 5])}

LegacyVersion_at_match(recv) ==
    LET n == CHOOSE k \in LegacyMatches(recv) : \A j \in LegacyMatches(recv) : k <= j
    IN (recv[n + 4] - 48) * 10 + (recv[n + 5] - 48)

\* (ord(recv[4])-48)*10+(ord(recv[5])-48): fixed offsets 4 and 5 of the burst
LegacyVersion(recv) == (recv[5] - 48) * 10 + (recv[6] - 48)

\* My_MSN_Device after Get_MSN_Device has listened to one port
Get_MSN_Device(port, recv) ==
    IF gbk_decodable(recv) /\ Len(recv) > 5 /\ LegacyMatches(recv) # {}
    THEN <<[com |-> port, version |-> LegacyVersion(recv)]>>
    ELSE <<>>

ScanStart ==
    [spc |-> "idle", idx |-> 0, scans |-> 0, open |-> {}, held |-> 0,
     acks |-> [p \in 1..MaxPorts |-> 0], adopted |-> 0,
     burst |-> <<>>, confirm |-> <<>>, tried |-> "none", device |-> 0,
     registry |-> <<>>, lburst |-> <<>>, lidx |-> 1, ltried |-> "none"]

ScanIdle == ScanStart

----------------------------------------------------------------------------
(* select_plugin_interactive: the state of the prompt and its worker thread *)

MaxWorkerFrames == 2

\* wake_from_screensaver: for _ in range(3)
WakeFrames == 3

\* frames written by initialize(): set_orientation writes one frame (clock,
\* metrics), clear_screen -> draw_rect writes three (sample)
InitFrames(cls) ==
    CASE cls = "clock" -> 1
      [] cls = "metrics" -> 1
      [] cls = "sample" -> 3

\* before select_plugin_interactive is called
SelIdle ==
    [fpc |-> "menu", wpc |-> "unborn", keep_alive_active |-> FALSE,
     cls |-> "None", n |-> 0, wrote |-> 0, log |-> <<>>]

----------------------------------------------------------------------------
(* ZFSPagesPlugin (plugins/plugin_zfs_pages.py) *)

MaxTime == 18

\* config.getint('zfs_pages', 'page_duration', fallback=4)
PageDuration == 4

\* self.button_threshold = adc_baseline - 125
ButtonMargin == 125

\* (self.current_page + 1) % 3
PageCount == 3

\* get_update_interval() of ZFSPagesPlugin
ZfsUpdateInterval == 1

\* values _read_adc_channel(9) returns: 0 when the read fails or the device
\* reports 0, otherwise recv[4] * 256 + recv[5]
AdcValues == {0, 500, 900, 1000}

\* readings taken by initialize()
Baselines == {0, 1000}

\* the 6-byte answer to the ADC command that carries the value in bytes 4 and 5
AdcFrame(value) == <<8, 9, 0, 0, value \div 256, value % 256>>

\* what happens to one _read_adc_channel(9): the write or the read raises, the
\* device answers nothing, answers with fewer than 6 bytes, or with a full frame
AdcReplies ==
    {[raised |-> TRUE, recv |-> <<>>],
     [raised |-> FALSE, recv |-> <<>>],
     [raised |-> FALSE, recv |-> <<8, 9, 0, 0, 3>>]}
    \cup {[raised |-> FALSE, recv |-> AdcFrame(value)] : value \in AdcValues}

\* the replies to the read made by initialize()
BaselineReplies ==
    {[raised |-> TRUE, recv |-> <<>>], [raised |-> FALSE, recv |-> <<8, 9>>]}
    \cup {[raised |-> FALSE, recv |-> AdcFrame(value)] : value \in Baselines}

\* _read_adc_channel: recv[4] * 256 + recv[5] of a reply of at least 6 bytes;
\* 0 after an exception (bare except) or a shorter reply
read_adc_channel(reply) ==
    IF ~reply.raised /\ Len(reply.recv) >= 6
    THEN reply.recv[5] * 256 + reply.recv[6]
    ELSE 0

\* the read raised or the reply was too short
AdcFailed(reply) == reply.raised \/ Len(reply.recv) < 6

\* ZFSPagesPlugin.__init__ (with DisplayPlugin.__init__); the fields from `now`
\* on record the clock and what the latest update() saw and did (due: the
\* rotation timer had run out when the update() began; adc_failed,
\* baseline_failed: the ADC read of the update() / of initialize() failed)
NewZfs(now) ==
    [phase |-> "new", is_running |-> FALSE, first_draw |-> TRUE,
     current_page |-> 0, last_page_change |-> now, page_duration |-> PageDuration,
     button_threshold |-> 0, button_was_pressed |-> FALSE,
     now |-> now, baseline |-> 0, updates |-> 0, at |-> 0, adc |-> 0, prev_adc |-> 0,
     before_page |-> 0, before_first_draw |-> TRUE, by_button |-> FALSE,
     by_timer |-> FALSE, rendered |-> -1, result |-> TRUE,
     pressed_ever |-> FALSE, gap |-> -1, due |-> FALSE,
     adc_failed |-> FALSE, baseline_failed |-> FALSE]

ZfsIdle == NewZfs(0)

\* start() -> initialize(): calibrate the button, page 0, timer restarted
ZFSPages_initialize(z, baseline) ==
    [z EXCEPT !.phase = "running", !.is_running = TRUE, !.first_draw = TRUE,
              !.button_threshold = baseline - ButtonMargin,
              !.current_page = 0, !.last_page_change = z.now,
              !.baseline = baseline, !.prev_adc = baseline, !.adc = baseline]

\* mutant of check_button_pressed: a reading of 0 is compared like any other
check_button_pressed_no_guard(z, adc_value) == adc_value < z.button_threshold

\* _check_button_pressed()
check_button_pressed(z, adc_value) ==
    IF adc_value > 0 THEN adc_value < z.button_threshold ELSE FALSE

NextPage(page) == (page + 1) % PageCount

\* mutant of ButtonStep: a button edge does not restart the rotation timer
ButtonStep_keeps_timer(z, adc_value) ==
    LET button_pressed == check_button_pressed(z, adc_value)
    IN IF button_pressed /\ ~z.button_was_pressed
       THEN [z EXCEPT !.current_page = NextPage(@),
                      !.first_draw = TRUE, !.button_was_pressed = TRUE,
                      !.by_button = TRUE, !.pressed_ever = TRUE]
       ELSE IF ~button_pressed
            THEN [z EXCEPT !.button_was_pressed = FALSE, !.by_button = FALSE]
            ELSE [z EXCEPT !.by_button = FALSE]

\* update(), lines 111-123: the button
ButtonStep(z, adc_value) ==
    LET button_pressed == check_button_pressed(z, adc_value)
    IN IF button_pressed /\ ~z.button_was_pressed
       THEN [z EXCEPT !.current_page = NextPage(@), !.last_page_change = z.now,
                      !.first_draw = TRUE, !.button_was_pressed = TRUE,
                      !.by_button = TRUE, !.pressed_ever = TRUE]
       ELSE IF ~button_pressed
            THEN [z EXCEPT !.button_was_pressed = FALSE, !.by_button = FALSE]
            ELSE [z EXCEPT !.by_button = FALSE]

\* mutant of TimerStep: the page is advanced without forcing first_draw
TimerStep_no_redraw(z) ==
    IF z.now - z.last_page_change >= z.page_duration
    THEN [z EXCEPT !.current_page = NextPage(@), !.last_page_change = z.now,
                   !.by_timer = TRUE, !.gap = z.now - z.last_page_change]
    ELSE [z EXCEPT !.by_timer = FALSE]

\* update(), lines 125-129: auto page rotation
TimerStep(z) ==
    IF z.now - z.last_page_change >= z.page_duration
    THEN [z EXCEPT !.current_page = NextPage(@), !.last_page_change = z.now,
                   !.first_draw = TRUE,
                   !.by_timer = TRUE, !.gap = z.now - z.last_page_change]
    ELSE [z EXCEPT !.by_timer = FALSE]

\* update(), lines 131-152: draw the current page if first_draw; renderOk = no
\* call of the page's renderer raised
RenderStep(z, renderOk) ==
    IF z.first_draw
    THEN IF renderOk
         THEN [z EXCEPT !.first_draw = FALSE, !.rendered = z.current_page,
                        !.result = TRUE]
         ELSE [z EXCEPT !.rendered = -1, !.result = FALSE]
    ELSE [z EXCEPT !.rendered = -1, !.result = TRUE]

\* ZFSPagesPlugin.update()
ZFSPages_update(z, adc_value, renderOk) ==
    LET z0 == [z EXCEPT !.updates = IF @ < 2 THEN @ + 1 ELSE @, !.at = z.now,
                        !.prev_adc = z.adc, !.adc = adc_value,
                        !.before_page = z.current_page,
                        !.before_first_draw = z.first_draw,
                        !.due = z.now - z.last_page_change >= z.page_duration]
    IN RenderStep(TimerStep(ButtonStep(z0, adc_value)), renderOk)

\* ZFSPagesPlugin.cleanup() called by stop()
ZFSPages_cleanup(z) ==
    [z EXCEPT !.phase = "stopped", !.is_running = FALSE, !.first_draw = TRUE,
              !.current_page = 0]

\* seconds from one update() to the next in run_plugin_loop (main.py:82-90):
\* elapsed grows by keepalive_interval until it reaches update_interval
SchedulerPeriod(interval) ==
    ((interval + KeepaliveInterval - 1) \div KeepaliveInterval) * KeepaliveInterval

----------------------------------------------------------------------------
(* the frames written by msc_display_lib.py's drawing functions *)

\* the argument values the drawing functions are called with
Operands == {-1, 0, 255, 256, 65535, 65536}

\* mutant of Hi: the low byte is sent where the high byte belongs
Hi_low_byte(v) == v % 256

\* v // 256
Hi(v) == v \div 256

\* v % 256
Lo(v) == v % 256

\* bytearray([...]) raises ValueError unless every element is in range(256)
IsByteArray(cmd) == \A i \in 1..Len(cmd) : cmd[i] \in 0..255

\* cmd of send_keep_alive
KeepAliveFrame == <<2, 3, 10, 0, 0, 0>>

\* the three cmd values of draw_pixel, in the order they are built and written
draw_pixel(x, y, color) ==
    << <<2, 0, Hi(x), Lo(x), Hi(y), Lo(y)>>,
       <<2, 1, 0, 1, 0, 1>>,
       <<2, 3, 11, Hi(color), Lo(color), 0>> >>

\* the three cmd values of draw_rect, in the order they are built and written
draw_rect(x, y, width, height, color) ==
    << <<2, 0, Hi(x), Lo(x), Hi(y), Lo(y)>>,
       <<2, 1, Hi(width), Lo(width), Hi(height), Lo(height)>>,
       <<2, 3, 11, Hi(color), Lo(color), 0>> >>

\* clear_screen(ser, color): draw_rect(ser, 0, 0, 160, 80, color)
clear_screen(color) == draw_rect(0, 0, 160, 80, color)

\* the frames that reach ser.write: those built before the first bytearray()
\* that raises
Written(cmds) ==
    LET bad == {i \in 1..Len(cmds) : ~IsByteArray(cmds[i])}
    IN IF bad = {} THEN cmds
       ELSE SubSeq(cmds, 1, (CHOOSE i \in bad : \A j \in bad : i <= j) - 1)

\* draw_rect calls made one after the other on a session
MaxDraws == 2

\* what ser.read(ser.in_waiting) returns after the frames were written: nothing,
\* the echo of a (2, 3) frame, or bytes that echo neither opcode nor sub-opcode
Responses == {<<>>, <<2, 3>>, <<2, 0>>, <<0, 0>>}

\* a call that has not been made yet, with its arguments. resp: the bytes the
\* call read, prev: those the draw_rect before it read, connected: what
\* is_device_connected returned, calls: the calls made
NewCall(x, y, width, height, color) ==
    [op |-> "none", x |-> x, y |-> y, width |-> width, height |-> height,
     color |-> color, frames |-> <<>>, raised |-> FALSE,
     resp |-> <<>>, prev |-> <<>>, connected |-> TRUE, calls |-> 0]

WireIdle == NewCall(0, 0, 0, 0, 0)

\* the call has been made: what it wrote and whether it raised
Called(w, op, cmds) ==
    [w EXCEPT !.op = op, !.frames = Written(cmds),
              !.raised = Len(Written(cmds)) < Len(cmds),
              !.calls = @ + 1]

\* ser.read(ser.in_waiting) at the end of a call whose frames were all written:
\* the bytes are read and dropped
Read(w, resp) == IF w.raised THEN w ELSE [w EXCEPT !.prev = w.resp, !.resp = resp]

----------------------------------------------------------------------------
(* the 5x7 bitmap font of msc_display_lib.py and the calls that draw with it *)

\* longest text passed to draw_text_bitmap
MaxText == 2

\* largest scale factor
MaxScale == 2

\* FONT_5X7: five column bytes per character, bit r of a column is row r
FONT_5X7 ==
    "0" :> <<62, 81, 73, 69, 62>> @@
    "1" :> <<0, 66, 127, 64, 0>> @@
    "2" :> <<66, 97, 81, 73, 70>> @@
    "3" :> <<33, 65, 69, 75, 49>> @@
    "4" :> <<24, 20, 18, 127, 16>> @@
    "5" :> <<39, 69, 69, 69, 57>> @@
    "6" :> <<60, 74, 73, 73, 48>> @@
    "7" :> <<1, 113, 9, 5, 3>> @@
    "8" :> <<54, 73, 73, 73, 54>> @@
    "9" :> <<6, 73, 73, 41, 30>> @@
    "A" :> <<126, 9, 9, 9, 126>> @@
    "B" :> <<127, 73, 73, 73, 54>> @@
    "C" :> <<62, 65, 65, 65, 34>> @@
    "D" :> <<127, 65, 65, 34, 28>> @@
    "E" :> <<127, 73, 73, 73, 65>> @@
    "F" :> <<127, 9, 9, 9, 1>> @@
    "G" :> <<62, 65, 73, 73, 122>> @@
    "H" :> <<127, 8, 8, 8, 127>> @@
    "I" :> <<0, 65, 127, 65, 0>> @@
    "J" :> <<32, 64, 65, 63, 1>> @@
    "K" :> <<127, 8, 20, 34, 65>> @@
    "L" :> <<127, 64, 64, 64, 64>> @@
    "M" :> <<127, 2, 12, 2, 127>> @@
    "N" :> <<127, 4, 8, 16, 127>> @@
    "O" :> <<62, 65, 65, 65, 62>> @@
    "P" :> <<127, 9, 9, 9, 6>> @@
    "Q" :> <<62, 65, 81, 33, 94>> @@
    "R" :> <<127, 9, 25, 41, 70>> @@
    "S" :> <<70, 73, 73, 73, 49>> @@
    "T" :> <<1, 1, 127, 1, 1>> @@
    "U" :> <<63, 64, 64, 64, 63>> @@
    "V" :> <<31, 32, 64, 32, 31>> @@
    "W" :> <<63, 64, 56, 64, 63>> @@
    "X" :> <<99, 20, 8, 20, 99>> @@
    "Y" :> <<7, 8, 112, 8, 7>> @@
    "Z" :> <<97, 81, 73, 69, 67>> @@
    ":" :> <<0, 54, 54, 0, 0>> @@
    "%" :> <<35, 19, 8, 100, 98>> @@
    " " :> <<0, 0, 0, 0, 0>> @@
    "." :> <<0, 96, 96, 0, 0>> @@
    "/" :> <<32, 16, 8, 4, 2>> @@
    "-" :> <<8, 8, 8, 8, 8>> @@
    "+" :> <<8, 8, 62, 8, 8>> @@
    "(" :> <<0, 28, 34, 65, 0>> @@
    ")" :> <<0, 65, 34, 28, 0>>

LowerLetters ==
    <<"a", "b", "c", "d", "e", "f", "g", "h", "i", "j", "k", "l", "m",
      "n", "o", "p", "q", "r", "s", "t", "u", "v", "w", "x", "y", "z">>

UpperLetters ==
    <<"A", "B", "C", "D", "E", "F", "G", "H", "I", "J", "K", "L", "M",
      "N", "O", "P", "Q", "R", "S", "T", "U", "V", "W", "X", "Y", "Z">>

\* char.upper() on one ASCII character
char_upper(char) ==
    IF \E i \in 1..Len(LowerLetters) : LowerLetters[i] = char
    THEN UpperLetters[CHOOSE i \in 1..Len(LowerLetters) : LowerLetters[i] = char]
    ELSE char

\* the characters the calls are made with: in the table, in lower case, and
\* ("?", "~") absent from it in either case
Chars == {"A", "i", "1", " ", "?", "~"}

Texts == UNION {[1..n -> Chars] : n \in 0..MaxText}

\* the column bytes rotate_bitmap_90 is called with
Columns == {0, 65, 127, 128, 255}

Bitmaps == [1..5 -> Columns]

\* the origins and the colour of the calls
Origins == {0, 100}

White == 65535

\* ser.write raises at this write of the call (0: no write raises)
FailPoints == {0, 2}

\* value & (1 << n)
BitSet(value, n) == (value \div (2 ^ n)) % 2 = 1

\* mutant of rotate_bitmap_90: the columns are not mirrored
rotate_bitmap_90_unmirrored(bitmap) ==
    LET Acc[col \in 0..5] ==
            [row \in 1..7 |->
                IF col = 0 THEN 0
                ELSE Acc[col - 1][row] +
                     (IF BitSet(bitmap[col], row - 1) THEN 2 ^ (col - 1) ELSE 0)]
    IN Acc[5]

\* rotated[row] collects bit (4 - col) for every column col whose bit row is set
rotate_bitmap_90(bitmap) ==
    LET Acc[col \in 0..5] ==
            [row \in 1..7 |->
                IF col = 0 THEN 0
                ELSE Acc[col - 1][row] +
                     (IF BitSet(bitmap[col], row - 1) THEN 2 ^ (4 - (col - 1)) ELSE 0)]
    IN Acc[5]

\* mutant of CharAdvance: the cursor advances by the glyph without its gap
CharAdvance_glyph_only(x, y, scale, rotated) ==
    IF rotated THEN y + 7 * scale ELSE x + 5 * scale

\* the value draw_char_bitmap returns
CharAdvance(x, y, scale, rotated) ==
    IF rotated THEN y + 8 * scale ELSE x + 6 * scale

\* the draw_pixel / draw_rect calls of one draw_char_bitmap, in the order of
\* its loops (outer: col, inner: row), and the value it returns; n numbers the
\* draw_char_bitmap call within its draw_text_bitmap
draw_char_bitmap(x, y, char, color, scale, rotated, n) ==
    IF char_upper(char) \notin DOMAIN FONT_5X7
    THEN [ret |-> CharAdvance(x, y, scale, rotated), draws |-> <<>>]
    ELSE LET bitmap == FONT_5X7[char_upper(char)]
             data == IF rotated THEN rotate_bitmap_90(bitmap) ELSE bitmap
             inner == IF rotated THEN 5 ELSE 7
             cells == [k \in 1..(Len(data) * inner) |->
                          [col |-> (k - 1) \div inner, row |-> (k - 1) % inner]]
             lit == SelectSeq(cells, LAMBDA c : BitSet(data[c.col + 1], c.row))
         IN [ret |-> CharAdvance(x, y, scale, rotated),
             draws |-> [k \in 1..Len(lit) |->
                 IF scale = 1
                 THEN [op |-> "draw_pixel", x |-> x + lit[k].col,
                       y |-> y + lit[k].row, width |-> 1, height |-> 1,
                       color |-> color, n |-> n]
                 ELSE [op |-> "draw_rect", x |-> x + lit[k].col * scale,
                       y |-> y + lit[k].row * scale, width |-> scale,
                       height |-> scale, color |-> color, n |-> n]]]

\* reversed(text)
Reversed(s) == [i \in 1..Len(s) |-> s[Len(s) + 1 - i]]

\* mutant of draw_text_bitmap: the rotated loop also runs in string order
draw_text_bitmap_unreversed(x, y, chars, color, scale, rotated) ==
    LET Loop[k \in 0..Len(chars)] ==
            IF k = 0
            THEN [cur |-> IF rotated THEN y ELSE x, calls |-> <<>>, draws |-> <<>>]
            ELSE LET prev == Loop[k - 1]
                     cx == IF rotated THEN x ELSE prev.cur
                     cy == IF rotated THEN prev.cur ELSE y
                     r == draw_char_bitmap(cx, cy, chars[k], color, scale, rotated, k)
                 IN [cur |-> r.ret,
                     calls |-> Append(prev.calls, [char |-> chars[k], x |-> cx, y |-> cy]),
                     draws |-> prev.draws \o r.draws]
    IN [ret |-> Loop[Len(chars)].cur, calls |-> Loop[Len(chars)].calls,
        draws |-> Loop[Len(chars)].draws]

\* the draw_char_bitmap calls of one draw_text_bitmap, their draws, and the
\* value it returns
draw_text_bitmap(x, y, chars, color, scale, rotated) ==
    draw_text_bitmap_unreversed(x, y, IF rotated THEN Reversed(chars) ELSE chars,
                                color, scale, rotated)

\* the frames of one draw call
DrawFrames(d) ==
    IF d.op = "draw_pixel" THEN draw_pixel(d.x, d.y, d.color)
    ELSE draw_rect(d.x, d.y, d.width, d.height, d.color)

\* the frames of a sequence of draw calls, in order
AllFrames(draws) ==
    LET Acc[k \in 0..Len(draws)] ==
            IF k = 0 THEN <<>> ELSE Acc[k - 1] \o DrawFrames(draws[k])
    IN Acc[Len(draws)]

\* a call that has not been made yet, with its arguments
NewText(kind, x, y, chars, scale, rotated, failAt, bitmap) ==
    [kind |-> kind, op |-> "none", x |-> x, y |-> y, chars |-> chars,
     scale |-> scale, rotated |-> rotated, failAt |-> failAt, bitmap |-> bitmap,
     returned |-> FALSE, ret |-> 0, calls |-> <<>>, draws |-> <<>>,
     frames |-> <<>>, result |-> <<>>]

TextIdle == NewText("text", 0, 0, <<>>, 1, FALSE, 0, <<>>)

\* the call has been made: r is what it does when no write raises; a write
\* that raises ends it there, with the frames, draws and draw_char_bitmap
\* calls made so far and no return value
TextCalled(t, op, r) ==
    LET frames == AllFrames(r.draws)
        raised == t.failAt # 0 /\ t.failAt <= Len(frames)
        nd == (t.failAt + 2) \div 3
    IN IF raised
       THEN [t EXCEPT !.op = op,
                      !.frames = SubSeq(frames, 1, t.failAt - 1),
                      !.draws = SubSeq(r.draws, 1, nd),
                      !.calls = SubSeq(r.calls, 1, r.draws[nd].n)]
       ELSE [t EXCEPT !.op = op, !.returned = TRUE, !.ret = r.ret,
                      !.frames = frames, !.draws = r.draws, !.calls = r.calls]

AuxIdle ==
    /\ sel = SelIdle /\ zfs = ZfsIdle /\ wire = WireIdle /\ text = TextIdle
    /\ api = ApiIdle

----------------------------------------------------------------------------
(* PluginManager / DisplayPlugin API driven in any order (MgrSpec) *)

SchedIdle ==
    /\ mode = "api" /\ plugin_to_run = "" /\ pc = "api"
    /\ ser = NoSerial
    /\ connected = TRUE /\ update_interval = 0 /\ elapsed = 0 /\ tUpd = -1
    /\ kaLog = <<>> /\ gap = -1 /\ gapKa = <<>> /\ rplExit = "none"
    /\ failPending = FALSE

MgrInit == manager = NewManager /\ SchedIdle /\ scan = ScanIdle /\ AuxIdle

MgrRoom == Len(manager.instances) < MaxInstances

MSwitchPlugin ==
    /\ MgrRoom
    /\ \E cls \in PluginClasses, initOk \in BOOLEAN :
          /\ manager' = switch_plugin(manager, cls, initOk)
          /\ api' = switch_plugin_call(manager, cls, initOk)
    /\ UNCHANGED <<schedVars, scan, sideVars>>

MSwitchToIndex ==
    /\ MgrRoom
    /\ \E index \in -1..Len(Plugins), initOk \in BOOLEAN :
          /\ manager' = switch_to_index(manager, index, initOk)
          /\ api' = switch_to_index_call(manager, index, initOk)
    /\ UNCHANGED <<schedVars, scan, sideVars>>

MSwitchToName ==
    /\ MgrRoom
    /\ \E name \in TypedNames, initOk \in BOOLEAN :
          /\ manager' = switch_to_name(manager, name, initOk)
          /\ api' = switch_to_name_call(manager, name, initOk)
    /\ UNCHANGED <<schedVars, scan, sideVars>>

MUpdateCurrentPlugin ==
    /\ \E r \in {"ok", "io_fail", "fault"}, minute_changed \in BOOLEAN :
          /\ manager' = update_current_plugin(manager, r)
          /\ api' = update_call(manager, r, minute_changed)
    /\ UNCHANGED <<schedVars, scan, sideVars>>

MCleanup ==
    /\ manager' = cleanup(manager)
    /\ api' = stop_call(manager, "cleanup")
    /\ UNCHANGED <<schedVars, scan, sideVars>>

\* main.py:294  manager.get_current_plugin().stop()
MStopCurrent ==
    /\ manager.current_plugin # 0
    /\ manager' = [manager EXCEPT !.instances[manager.current_plugin] = stop(@)]
    /\ api' = stop_call(manager, "stop")
    /\ UNCHANGED <<schedVars, scan, sideVars>>

\* display_interface.py:90-104  start() on the manager's current plugin
MStartCurrent ==
    /\ manager.current_plugin # 0
    /\ Current(manager).inits < MaxInits
    /\ \E initOk \in BOOLEAN :
          /\ manager' = [manager EXCEPT !.instances[manager.current_plugin] =
                                           start(@, initOk)]
          /\ api' = start_call(Current(manager), initOk)
    /\ UNCHANGED <<schedVars, scan, sideVars>>

MgrNext ==
    \/ MStartCurrent
    \/ MSwitchPlugin
    \/ MSwitchToIndex
    \/ MSwitchToName
    \/ MUpdateCurrentPlugin
    \/ MCleanup
    \/ MStopCurrent

MgrSpec == MgrInit /\ [][MgrNext]_vars

Running(m) == {i \in 1..Len(m.instances) : m.instances[i].is_running}

\* C1: on one PluginManager, after any sequence of switch_plugin, switch_to_name,
\* switch_to_index, update_current_plugin and cleanup calls, at most one plugin
\* instance has is_running = TRUE (and it is the manager's current plugin).
C1_AtMostOneRunning ==
    /\ Cardinality(Running(manager)) <= 1
    /\ \A i \in Running(manager) : manager.current_plugin = i

\* a second plugin was activated after a first one ran and was stopped
C1_Witness ==
    /\ Len(manager.instances) >= 2
    /\ manager.instances[1].cleanups = 1
    /\ ~manager.instances[1].is_running
    /\ manager.current_plugin = 2
    /\ manager.instances[2].is_running

\* C31: for a plugin module that defines several DisplayPlugin subclasses the
\* manager loads the first subclass in definition order: every plugin it
\* instantiates is the first class its module defines (HelloWorldPlugin for
\* plugin_sample, not HelloWorldAdvancedPlugin).
C31_FirstDefinedClassLoaded ==
    \A i \in 1..Len(manager.instances) :
        manager.instances[i].cls \in
            {ClassOf(DefinedClasses(PluginFiles[k])[1]) : k \in 1..Len(PluginFiles)}

\* C33: in every reachable state of a plugin instance driven through the
\* PluginManager, is_running = false implies first_draw = true.
C33_StoppedImpliesFirstDraw ==
    \A i \in 1..Len(manager.instances) :
        ~manager.instances[i].is_running => manager.instances[i].first_draw

\* a plugin that had drawn has been stopped
C33_Witness ==
    /\ api.stopped # "None" /\ api.stopped_drawn
    /\ \E i \in 1..Len(manager.instances) :
          /\ manager.instances[i].cls = api.stopped
          /\ manager.instances[i].cleanups = 1
          /\ ~manager.instances[i].is_running
          /\ manager.instances[i].first_draw

\* C34: for every plugin instance and every sequence of start() and stop()
\* calls, successful initialize() calls and cleanup() calls strictly alternate,
\* starting with initialize: stop() on a non-running instance calls nothing,
\* and the number of cleanup() calls never exceeds that of successful
\* initialize() calls.
C34_InitializeCleanupAlternate ==
    /\ [](\A i \in 1..Len(manager.instances) :
            LET p == manager.instances[i]
            IN /\ p.cleanups <= p.inits
               /\ p.inits <= p.cleanups + 1
               /\ p.is_running <=> p.inits = p.cleanups + 1)
    /\ [][\A i \in 1..Len(manager.instances) :
            i <= Len(manager'.instances) =>
               LET p == manager.instances[i]
                   q == manager'.instances[i]
               IN /\ q.inits \in {p.inits, p.inits + 1}
                  /\ q.cleanups \in {p.cleanups, p.cleanups + 1}
                  /\ q.inits = p.inits + 1 => ~p.is_running /\ q.cleanups = p.cleanups
                  /\ q.cleanups = p.cleanups + 1 => p.is_running /\ q.inits = p.inits]_vars
    /\ [][(api'.op = "stop" /\ api'.stopped = "None") => manager' = manager]_vars

\* one instance started, stopped, started again and stopped again
C34_Witness ==
    \E i \in 1..Len(manager.instances) :
        /\ manager.instances[i].inits = 2
        /\ manager.instances[i].cleanups = 2
        /\ ~manager.instances[i].is_running

\* C35: switch_plugin stops the outgoing plugin (its cleanup() completes)
\* before the incoming plugin's initialize() starts; if the incoming start()
\* fails, switch_plugin returns false and the manager has no current plugin
\* (the outgoing plugin stays stopped); switch_to_name / switch_to_index with an
\* unknown name or an invalid index return false and leave the current plugin
\* and its running state unchanged.
C35_SwitchStopsThenStarts ==
    /\ [](api.op = "switch_plugin" =>
            /\ api.calls[Len(api.calls)] = <<"initialize", api.cls>>
            /\ api.stopped # "None" =>
                  api.calls = << <<"cleanup", api.stopped>>, <<"initialize", api.cls>> >>
            /\ api.ret = (manager.current_plugin # 0)
            /\ ~api.ret =>
                  \A i \in 1..Len(manager.instances) : ~manager.instances[i].is_running)
    /\ [][api'.op = "switch_plugin" =>
            \A i \in 1..Len(manager.instances) : ~manager'.instances[i].is_running]_vars
    /\ [][api'.op \in {"switch_to_index", "switch_to_name"} =>
            ~api'.ret /\ manager' = manager]_vars

\* a switch whose incoming plugin failed to start, after stopping a running plugin
C35_Witness ==
    /\ api.op = "switch_plugin" /\ api.stopped # "None"
    /\ api.initialized /\ ~api.init_ok /\ ~api.ret
    /\ manager.current_plugin = 0

\* C26: when a running plugin is deactivated (stop(), switch to another
\* plugin, or manager cleanup), its cleanup() leaves the display cleared: the
\* last draw operation written for that plugin is a full-screen clear, for
\* every plugin type.
C26_CleanupLeavesDisplayCleared ==
    api.stopped # "None" => api.cleanup_draw = "clear"

\* the instance i of the manager before a step (a fresh instance if the step
\* created it)
Before(i) ==
    IF i <= Len(manager.instances) THEN manager.instances[i]
    ELSE NewPlugin(manager'.instances[i].cls)

\* C27: initialize() is called exactly once per activation of a plugin
\* instance: start() on an instance that is already running returns true
\* without calling initialize() again, and is_running becomes true only when
\* initialize() returned true.
C27_InitializeOncePerActivation ==
    /\ []((api.op = "start" /\ api.was_running) => (api.ret /\ ~api.initialized))
    /\ [][\A i \in 1..Len(manager'.instances) :
            /\ (manager'.instances[i].is_running /\ ~Before(i).is_running) =>
                  /\ api'.initialized /\ api'.init_ok
                  /\ manager'.instances[i].inits = Before(i).inits + 1
            /\ (manager'.instances[i].is_running /\ Before(i).is_running) =>
                  manager'.instances[i].inits = Before(i).inits]_vars

\* start() was called on the running current plugin, activated once
C27_Witness ==
    /\ api.op = "start" /\ api.was_running /\ api.ret /\ ~api.initialized
    /\ manager.current_plugin # 0
    /\ Current(manager).is_running
    /\ Current(manager).inits = 1

\* C28: on every activation or re-activation of a plugin, the first update()
\* after start() sees first_draw = true and performs a full redraw (screen
\* clear plus static layout) before first_draw becomes false; every update()
\* of a running plugin, first or not, redraws the dynamic value regions.
C28_FirstUpdateFullRedraw ==
    /\ (api.op \in {"start", "switch_plugin"} /\ api.init_ok) =>
          Current(manager).first_draw
    /\ (api.op = "update" /\ api.ret) =>
          /\ api.first_draw => api.drew = "full"
          /\ api.drew \in {"full", "dynamic"}
          /\ Current(manager).first_draw => api.drew = "full"

----------------------------------------------------------------------------
(* main(): the scheduler (Spec) *)

Init ==
    /\ manager = NewManager
    /\ mode \in {"interactive", "plugin", "list"}
    /\ plugin_to_run \in IF mode = "plugin" THEN PluginArgs ELSE {""}
    /\ pc = "wait_device"
    /\ ser = NoSerial
    /\ connected = TRUE
    /\ update_interval = 0
    /\ elapsed = 0
    /\ tUpd = -1
    /\ kaLog = <<>>
    /\ gap = -1
    /\ gapKa = <<>>
    /\ rplExit = "none"
    /\ failPending = FALSE
    /\ scan = ScanIdle /\ AuxIdle

RplPcs == {"rpl_entry", "rpl_top", "rpl_update", "rpl_cooldown", "rpl_wait", "rpl_sleep"}

\* where run_plugin_loop returns to: main.py:233 (--plugin) or main.py:299 (interactive)
ReturnPc == IF mode = "plugin" THEN "p_check" ELSE "i_recheck"

LoopLocalsReset ==
    /\ elapsed' = 0
    /\ tUpd' = -1
    /\ kaLog' = <<>>

\* main.py:194-199  ser = wait_for_msc_device(); manager = PluginManager(ser)
WaitForDevice ==
    /\ pc = "wait_device"
    /\ ser.id < MaxSessions
    /\ ser' = NewSerial(ser.id + 1)
    /\ manager' = NewManager
    /\ pc' = IF mode = "plugin" THEN "load_plugin" ELSE "discover"
    /\ connected' = TRUE
    /\ failPending' = FALSE
    /\ UNCHANGED <<mode, plugin_to_run, update_interval, elapsed, tUpd, kaLog,
                   gap, gapKa, rplExit, scan, auxVars>>

\* main.py:202-228  load the pre-selected plugin and start it; return on failure
StartPreselected ==
    /\ pc = "load_plugin"
    /\ LET cls == load_plugin_by_file(plugin_to_run)
       IN IF cls = "None"
          THEN /\ pc' = "exit"
               /\ UNCHANGED <<manager, ser>>
          ELSE \E initOk \in BOOLEAN :
               /\ manager' = switch_plugin(manager, cls, initOk)
               /\ ser' = ser_write(ser, initOk)
               /\ pc' = IF initOk THEN "p_check" ELSE "exit"
    /\ UNCHANGED <<mode, plugin_to_run, connected, update_interval, elapsed, tUpd,
                   kaLog, gap, gapKa, rplExit, failPending, scan, auxVars>>

\* mutant of PluginModeCheck: on a failed check the loop restarts without
\* cleaning up the plugin or closing the port
PluginModeCheck_just_restarts ==
    /\ pc = "p_check"
    /\ \E ok \in BOOLEAN :
          /\ connected' = is_device_connected(~ok)
          /\ ser' = send_keep_alive(ser, ok)
          /\ manager' = manager
          /\ pc' = IF connected' THEN "rpl_entry" ELSE "wait_device"
    /\ UNCHANGED <<mode, plugin_to_run, update_interval, elapsed, tUpd, kaLog,
                   gap, gapKa, rplExit, failPending, scan, auxVars>>

\* main.py:233-241  --plugin mode: check the connection, then run_plugin_loop
PluginModeCheck ==
    /\ pc = "p_check"
    /\ \E ok \in BOOLEAN, cok \in BOOLEAN :
          /\ connected' = is_device_connected(~ok)
          /\ IF connected'
             THEN /\ ser' = send_keep_alive(ser, ok)
                  /\ manager' = manager
                  /\ pc' = "rpl_entry"
             ELSE /\ ser' = ser_close(CleanupIO(send_keep_alive(ser, ok), manager, cok))
                  /\ manager' = cleanup(manager)
                  /\ pc' = "wait_device"
    /\ UNCHANGED <<mode, plugin_to_run, update_interval, elapsed, tUpd, kaLog,
                   gap, gapKa, rplExit, failPending, scan, auxVars>>

\* main.py:256-269  discover_plugins(); no plugins: sleep 5 and rescan; --list: return
Discover ==
    /\ pc = "discover"
    /\ \E plugin_count \in {0, Len(Plugins)} :
          pc' = IF plugin_count = 0 THEN "wait_device"
                ELSE IF mode = "list" THEN "exit" ELSE "i_check"
    /\ UNCHANGED <<manager, mode, plugin_to_run, ser, connected, update_interval,
                   elapsed, tUpd, kaLog, gap, gapKa, rplExit, failPending, scan, auxVars>>

\* main.py:275-289  interactive loop head: connection check, then select or run
InteractiveCheck ==
    /\ pc = "i_check"
    /\ \E ok \in BOOLEAN, cok \in BOOLEAN :
          /\ connected' = is_device_connected(~ok)
          /\ IF connected'
             THEN /\ ser' = send_keep_alive(ser, ok)
                  /\ manager' = manager
                  /\ pc' = IF manager.current_plugin = 0 THEN "select" ELSE "rpl_entry"
                  /\ failPending' = IF manager.current_plugin = 0 THEN FALSE ELSE failPending
             ELSE /\ ser' = CleanupIO(send_keep_alive(ser, ok), manager, cok)
                  /\ manager' = cleanup(manager)
                  /\ pc' = "wait_device"
                  /\ failPending' = failPending
    /\ UNCHANGED <<mode, plugin_to_run, update_interval, elapsed, tUpd, kaLog,
                   gap, gapKa, rplExit, scan, auxVars>>

\* main.py:299-302  interactive loop tail: connection check after run_plugin_loop
InteractiveRecheck ==
    /\ pc = "i_recheck"
    /\ \E ok \in BOOLEAN, cok \in BOOLEAN :
          /\ connected' = is_device_connected(~ok)
          /\ IF connected'
             THEN /\ ser' = send_keep_alive(ser, ok)
                  /\ manager' = manager
                  /\ pc' = "i_check"
             ELSE /\ ser' = CleanupIO(send_keep_alive(ser, ok), manager, cok)
                  /\ manager' = cleanup(manager)
                  /\ pc' = "wait_device"
    /\ UNCHANGED <<mode, plugin_to_run, update_interval, elapsed, tUpd, kaLog,
                   gap, gapKa, rplExit, failPending, scan, auxVars>>

\* main.py:97-150 select_plugin_interactive, with main.py:282-284 and the handlers
\* at main.py:304-311 (Exception) and main.py:313-322 (KeyboardInterrupt).
\* worker: what the keep-alive thread did while input() blocked.
SelectPlugin ==
    /\ pc = "select"
    /\ \E worker \in {"idle", "sent", "raised"},
          choice \in {"q", "", "^C", "EOF"} \cup TypedNames,
          wok \in BOOLEAN, initOk \in BOOLEAN, cok \in BOOLEAN :
          LET s0 == IF worker = "idle" THEN ser ELSE send_keep_alive(ser, worker = "sent")
              s1 == wake_from_screensaver(s0, wok)
          IN CASE choice \in {"q", "^C"} ->
                    /\ manager' = cleanup(manager)
                    /\ ser' = ser_close(CleanupIO(s0, manager, cok))
                    /\ pc' = "exit"
               [] choice = "" ->
                    /\ manager' = manager
                    /\ ser' = s0
                    /\ pc' = "i_recheck"
               [] choice = "EOF" \/ (choice \in TypedNames /\ ~wok) ->
                    /\ manager' = cleanup(manager)
                    /\ ser' = ser_close(CleanupIO(IF choice = "EOF" THEN s0 ELSE s1,
                                                  manager, cok))
                    /\ pc' = "wait_device"
               [] choice \in TypedNames /\ wok /\ get_plugin_by_name(choice) = "None" ->
                    /\ manager' = manager
                    /\ ser' = s1
                    /\ pc' = "i_recheck"
               [] choice \in TypedNames /\ wok /\ get_plugin_by_name(choice) # "None" ->
                    /\ Len(manager.instances) < MaxInstances
                    /\ manager' = switch_to_name(manager, choice, initOk)
                    /\ ser' = ser_write(s1, initOk)
                    /\ pc' = IF initOk THEN "rpl_entry" ELSE "i_recheck"
    /\ UNCHANGED <<mode, plugin_to_run, connected, update_interval, elapsed, tUpd,
                   kaLog, gap, gapKa, rplExit, failPending, scan, auxVars>>

\* main.py:49-60  run_plugin_loop entry
RplEntry ==
    /\ pc = "rpl_entry"
    /\ IF manager.current_plugin = 0
       THEN /\ rplExit' = "no_plugin"
            /\ pc' = ReturnPc
            /\ UNCHANGED update_interval
       ELSE /\ update_interval' = get_update_interval(Current(manager).cls)
            /\ pc' = "rpl_top"
            /\ UNCHANGED rplExit
    /\ LoopLocalsReset
    /\ gap' = -1
    /\ gapKa' = <<>>
    /\ UNCHANGED <<manager, mode, plugin_to_run, ser, connected, failPending, scan, auxVars>>

\* main.py:63-67  connection check at the head of the update loop
RplTop ==
    /\ pc = "rpl_top"
    /\ \E ok \in BOOLEAN :
          /\ ser' = send_keep_alive(ser, ok)
          /\ connected' = is_device_connected(~ok)
          /\ IF connected'
             THEN /\ pc' = "rpl_update"
                  /\ kaLog' = IF tUpd >= 0 THEN Append(kaLog, tUpd) ELSE kaLog
                  /\ UNCHANGED <<elapsed, tUpd, rplExit>>
             ELSE /\ pc' = ReturnPc
                  /\ rplExit' = "disconnected"
                  /\ LoopLocalsReset
    /\ UNCHANGED <<manager, mode, plugin_to_run, update_interval, gap, gapKa,
                   failPending, scan, auxVars>>

\* main.py:69-83  manager.update_current_plugin(); on failure manager.cleanup()
RplUpdate ==
    /\ pc = "rpl_update"
    /\ \E wok \in BOOLEAN, r \in {"ok", "io_fail", "fault"}, cok \in BOOLEAN :
          LET can == CanUpdate(manager)
              s1 == IF can THEN wake_from_screensaver(ser, wok) ELSE ser
              s2 == IF can /\ r # "fault" THEN update_draw(s1, r = "ok") ELSE s1
              m1 == update_current_plugin(manager, r)
          IN IF update_current_result(manager, r)
             THEN /\ manager' = m1
                  /\ ser' = s2
                  /\ pc' = "rpl_wait"
                  /\ elapsed' = 0
                  /\ gap' = IF tUpd >= 0 THEN tUpd ELSE gap
                  /\ gapKa' = IF tUpd >= 0 THEN kaLog ELSE gapKa
                  /\ tUpd' = 0
                  /\ kaLog' = <<>>
                  /\ UNCHANGED failPending
             ELSE /\ manager' = cleanup(m1)
                  /\ ser' = CleanupIO(s2, m1, cok)
                  /\ pc' = "rpl_cooldown"
                  /\ failPending' = (can \/ failPending)
                  /\ UNCHANGED <<elapsed, tUpd, kaLog, gap, gapKa>>
    /\ UNCHANGED <<mode, plugin_to_run, connected, update_interval, rplExit, scan, auxVars>>

\* main.py:74-75 / 79-80  time.sleep(2); break
RplCooldown ==
    /\ pc = "rpl_cooldown"
    /\ pc' = ReturnPc
    /\ rplExit' = "update_failed"
    /\ LoopLocalsReset
    /\ UNCHANGED <<manager, mode, plugin_to_run, ser, connected, update_interval,
                   gap, gapKa, failPending, scan, auxVars>>

RplWait_keeps_sleeping ==
    /\ pc = "rpl_wait"
    /\ IF elapsed < update_interval
       THEN \E ok \in BOOLEAN :
               /\ ser' = send_keep_alive(ser, ok)
               /\ connected' = is_device_connected(~ok)
               /\ pc' = "rpl_sleep"
               /\ kaLog' = Append(kaLog, tUpd)
       ELSE /\ pc' = "rpl_top"
            /\ UNCHANGED <<ser, connected, kaLog>>
    /\ UNCHANGED <<manager, mode, plugin_to_run, update_interval, gap, gapKa,
                   elapsed, tUpd, rplExit, failPending, scan, auxVars>>

\* main.py:84-87  while elapsed < update_interval: connection check
RplWait ==
    /\ pc = "rpl_wait"
    /\ IF elapsed < update_interval
       THEN \E ok \in BOOLEAN :
               /\ ser' = send_keep_alive(ser, ok)
               /\ connected' = is_device_connected(~ok)
               /\ IF connected'
                  THEN /\ pc' = "rpl_sleep"
                       /\ kaLog' = Append(kaLog, tUpd)
                       /\ UNCHANGED <<elapsed, tUpd, rplExit>>
                  ELSE /\ pc' = ReturnPc
                       /\ rplExit' = "disconnected_in_wait"
                       /\ LoopLocalsReset
       ELSE /\ pc' = "rpl_top"
            /\ UNCHANGED <<ser, connected, kaLog, elapsed, tUpd, rplExit>>
    /\ UNCHANGED <<manager, mode, plugin_to_run, update_interval, gap, gapKa,
                   failPending, scan, auxVars>>

\* main.py:89-90  time.sleep(keepalive_interval); elapsed += keepalive_interval
RplSleep ==
    /\ pc = "rpl_sleep"
    /\ elapsed' = elapsed + KeepaliveInterval
    /\ tUpd' = tUpd + KeepaliveInterval
    /\ pc' = "rpl_wait"
    /\ UNCHANGED <<manager, mode, plugin_to_run, ser, connected, update_interval,
                   kaLog, gap, gapKa, rplExit, failPending, scan, auxVars>>

\* main.py:92-94, 290-296  Ctrl-C inside run_plugin_loop, interactive mode:
\* stop the current plugin (it stays the manager's current plugin), back to the menu
InterruptInLoop ==
    /\ mode = "interactive"
    /\ pc \in RplPcs
    /\ \E cok \in BOOLEAN :
          /\ ser' = CleanupIO(ser, manager, cok)
          /\ manager' = IF manager.current_plugin # 0
                        THEN [manager EXCEPT !.instances[manager.current_plugin] = stop(@)]
                        ELSE manager
    /\ pc' = "i_check"
    /\ rplExit' = "interrupted"
    /\ LoopLocalsReset
    /\ UNCHANGED <<mode, plugin_to_run, connected, update_interval, gap, gapKa,
                   failPending, scan, auxVars>>

\* main.py:242-249  Ctrl-C in --plugin mode: manager.cleanup(); ser.close(); return
InterruptPluginMode ==
    /\ mode = "plugin"
    /\ pc \in RplPcs \cup {"p_check"}
    /\ \E cok \in BOOLEAN :
          /\ ser' = ser_close(CleanupIO(ser, manager, cok))
          /\ manager' = cleanup(manager)
    /\ pc' = "exit"
    /\ LoopLocalsReset
    /\ UNCHANGED <<mode, plugin_to_run, connected, update_interval, gap, gapKa,
                   rplExit, failPending, scan, auxVars>>

\* main.py:313-322  Ctrl-C anywhere else: manager.cleanup() and ser.close() if they exist
InterruptOuter ==
    /\ \/ pc \in {"wait_device", "discover", "load_plugin"}
       \/ mode = "interactive" /\ pc \in {"i_check", "i_recheck"}
    /\ \E cok \in BOOLEAN :
          /\ ser' = ser_close(CleanupIO(ser, manager, cok))
          /\ manager' = cleanup(manager)
    /\ pc' = "exit"
    /\ UNCHANGED <<mode, plugin_to_run, connected, update_interval, elapsed, tUpd,
                   kaLog, gap, gapKa, rplExit, failPending, scan, auxVars>>

\* the steps of the main thread
SchedulerStep ==
    \/ WaitForDevice
    \/ StartPreselected
    \/ PluginModeCheck
    \/ Discover
    \/ InteractiveCheck
    \/ InteractiveRecheck
    \/ SelectPlugin
    \/ RplEntry
    \/ RplTop
    \/ RplUpdate
    \/ RplCooldown
    \/ RplWait
    \/ RplSleep

Next ==
    \/ SchedulerStep
    \/ InterruptInLoop
    \/ InterruptPluginMode
    \/ InterruptOuter

Spec == Init /\ [][Next]_vars

\* the main thread keeps running while it has a step to take
LiveSpec == Init /\ [][Next]_vars /\ WF_vars(SchedulerStep)

----------------------------------------------------------------------------
(* Properties of the scheduler *)

Instances == {manager.instances[i] : i \in 1..Len(manager.instances)}

\* C2: whenever update() of the active plugin returns false or raises, the
\* scheduler deactivates it (cleanup() invoked, no current plugin), waits the
\* cooldown and next obtains a plugin again (selection or the pre-selected
\* plugin) without running the update loop on nothing, in both modes.
C2_FailedUpdateReturnsToStep1 ==
    failPending =>
        /\ manager.current_plugin = 0
        /\ \A p \in Instances : p.failed => ~p.is_running /\ p.cleanups = 1
        /\ pc \in {"rpl_cooldown", "i_recheck", "i_check", "p_check", "select",
                   "load_plugin", "wait_device", "exit"}

\* C29: a write or read exception raised while a plugin is drawing inside
\* update() is handled as a disconnect: on that session there is no further
\* update() and no plugin selection (the scheduler re-enters scanning).
C29_DrawExceptionIsDisconnect ==
    ser.draw_raised =>
        pc \notin {"select", "load_plugin", "rpl_entry", "rpl_top", "rpl_update",
                   "rpl_wait", "rpl_sleep"}

\* update() of the current plugin has been called in this pass of run_plugin_loop
UpdateCalled ==
    \/ pc = "rpl_wait"
    \/ pc = "rpl_cooldown" /\ failPending

\* C30: in --plugin mode a failed connectivity check restarts the loop: the
\* plugin is cleaned up, the port is closed and the program waits for a device;
\* after the next handshake the same pre-selected plugin is loaded and started
\* on the new session, and, unless its start fails, the device disconnects
\* again or the user interrupts, its update() is eventually called.
C30_PluginModeReconnects ==
    /\ [][(mode = "plugin" /\ pc = "p_check" /\ ~connected' /\ pc' # "exit") =>
             /\ pc' = "wait_device"
             /\ ~ser'.is_open
             /\ manager'.current_plugin = 0
             /\ \A i \in 1..Len(manager.instances) :
                   manager.instances[i].is_running =>
                      /\ ~manager'.instances[i].is_running
                      /\ manager'.instances[i].cleanups =
                            manager.instances[i].cleanups + 1]_vars
    /\ [][(pc = "wait_device" /\ pc' # "wait_device" /\ pc' # "exit") =>
             /\ ser'.id = ser.id + 1 /\ ser'.is_open
             /\ plugin_to_run' = plugin_to_run
             /\ mode = "plugin" => pc' = "load_plugin"]_vars
    /\ [][(pc = "load_plugin" /\ pc' = "p_check") =>
             /\ CanUpdate(manager')
             /\ Current(manager').cls = load_plugin_by_file(plugin_to_run)
             /\ Current(manager').inits = 1
             /\ Current(manager').first_draw
             /\ ser'.id = ser.id]_vars
    /\ (mode = "plugin" /\ pc = "load_plugin" /\ ser.id > 1)
          ~> (UpdateCalled \/ ~connected \/ pc = "exit")

\* the pre-selected plugin has been updated on a session opened after a disconnect
C30_Witness ==
    /\ mode = "plugin" /\ ser.id > 1 /\ ser.is_open
    /\ pc = "rpl_wait"
    /\ CanUpdate(manager)
    /\ Current(manager).cls = load_plugin_by_file(plugin_to_run)
    /\ ~Current(manager).first_draw

\* the current plugin is a stopped instance (left by a Ctrl-C inside run_plugin_loop)
Stale == manager.current_plugin # 0 /\ ~Current(manager).is_running

\* C32: update() is never invoked on a plugin that is not running. When
\* run_plugin_loop reaches update_current_plugin with a stopped instance as the
\* current plugin, no frame is written and no instance changes, the call
\* returns false, the manager is left with no current plugin, and the scheduler
\* goes on to the selection prompt unless the device disconnects or the user
\* interrupts first.
C32_NoUpdateWhenNotRunning ==
    /\ [][(pc = "rpl_update" /\ ~CanUpdate(manager) /\ pc' \notin {"i_check", "exit"}) =>
             /\ manager'.instances = manager.instances
             /\ manager'.current_plugin = 0
             /\ ser' = ser
             /\ pc' = "rpl_cooldown"]_vars
    /\ [][(\E i \in 1..Len(manager.instances) :
               /\ i <= Len(manager'.instances)
               /\ manager'.instances[i].cls = manager.instances[i].cls
               /\ manager'.instances[i].first_draw # manager.instances[i].first_draw
               /\ ~manager'.instances[i].first_draw) =>
             (pc = "rpl_update" /\ CanUpdate(manager))]_vars
    /\ (pc = "rpl_update" /\ Stale)
          ~> \/ pc = "select" /\ manager.current_plugin = 0
             \/ ~connected
             \/ pc = "exit"
             \/ pc = "i_check" /\ rplExit = "interrupted"

\* the selection prompt reached after update_current_plugin refused a stale instance
C32_Witness ==
    /\ pc = "select"
    /\ rplExit = "update_failed"
    /\ manager.current_plugin = 0
    /\ ~failPending
    /\ \E i \in 1..Len(manager.instances) : manager.instances[i].cleanups = 1
    /\ \A i \in 1..Len(manager.instances) : ~manager.instances[i].failed

\* a running plugin, plugin selection, loading the pre-selected plugin, or scanning
Connectable ==
    \/ CanUpdate(manager)
    \/ pc \in {"select", "load_plugin", "wait_device", "discover"}

\* C3: after a fatal producer fault the scheduler eventually reaches a
\* connectable state again (or the user ends the process); it does not stay
\* forever connected with no plugin active and none being obtained.
C3_FaultLeadsToConnectable ==
    [](failPending => <>(Connectable \/ pc = "exit"))

CheckPcs == {"p_check", "i_check", "i_recheck", "rpl_top", "rpl_wait"}

\* a step of the main thread out of a connectivity check (not a Ctrl-C)
CheckStep ==
    /\ pc \in CheckPcs
    /\ pc' # pc
    /\ pc' # "exit"
    /\ ~(pc \in RplPcs /\ pc' = "i_check")

\* C4: on a connected session, if the next write raises then
\* is_device_connected returns false and the scheduler takes the disconnect
\* branch; when it re-enters scanning every plugin it had started has had
\* cleanup() invoked exactly once and no plugin is current.
C4_DisconnectCleansUpOnce ==
    /\ [](pc = "wait_device" =>
            /\ manager.current_plugin = 0
            /\ \A p \in Instances : ~p.is_running /\ p.cleanups = p.inits /\ p.inits <= 1)
    /\ [][(CheckStep /\ ~ser.failed /\ ser'.failed) =>
            (~connected' /\ pc' \in {"wait_device", ReturnPc})]_vars

\* --plugin mode: the running plugin was cleaned up because the check failed
C4_Witness ==
    /\ mode = "plugin"
    /\ pc = "wait_device"
    /\ ~connected
    /\ ser.failed
    /\ Len(manager.instances) = 1
    /\ manager.instances[1].inits = 1
    /\ manager.instances[1].cleanups = 1
    /\ ~manager.instances[1].failed

\* C5: with update_interval() = 10 and keepalive_interval = 3 the scheduler
\* sends exactly 3 keep-alive frames between two updates, at t = 3, 6, 9, and
\* the next update() happens at t = 10.
C5_CadenceTenThree ==
    (gap # -1 /\ update_interval = 10) => (gap = 10 /\ gapKa = <<3, 6, 9>>)

\* C6: a failed connectivity check during the inter-update wait ends that
\* run_plugin_loop call at once: no sleep, no update(), return to the caller.
C6_WaitAbortsOnDisconnect ==
    /\ [](pc = "rpl_sleep" => connected)
    /\ [][(pc = "rpl_wait" /\ ~connected') =>
            /\ pc' = ReturnPc
            /\ rplExit' = "disconnected_in_wait"
            /\ manager' = manager
            /\ elapsed' = 0]_vars

C6_Witness ==
    /\ rplExit = "disconnected_in_wait"
    /\ pc = ReturnPc
    /\ ~connected
    /\ CanUpdate(manager)

\* C7: once a write on a session has raised, no further frame is written to
\* that session handle.
C7_NoWriteAfterFailedWrite == ~ser.late

\* C8: when the scheduler re-enters scanning after detecting a disconnect, the
\* previous session's serial port has been closed.
C8_PortClosedBeforeRescan ==
    (pc = "wait_device" /\ ser.id > 0 /\ ~connected) => ~ser.is_open

\* the process ends on a user interrupt: Ctrl-C in --plugin mode (main.py:242),
\* Ctrl-C outside the plugin loop (main.py:313), 'q' or Ctrl-C at the prompt
UserInterruptExit ==
    /\ pc # "exit"
    /\ pc' = "exit"
    /\ InterruptPluginMode \/ InterruptOuter \/ pc = "select"

\* no plugin is current, every plugin that was started has been cleaned up,
\* and the serial session is closed
ExitedCleanly ==
    /\ manager.current_plugin = 0
    /\ \A p \in Instances : ~p.is_running /\ p.cleanups = p.inits /\ p.inits <= 1
    /\ ~ser.is_open

\* C15: on every path where the process exits because of a user interrupt
\* (Ctrl-C, or 'q' at the selection prompt) the active plugin has been stopped
\* (cleanup() invoked if it was running) and the serial session has been closed
\* before main returns, in both modes.
C15_InterruptExitCleansUp ==
    [][UserInterruptExit => ExitedCleanly']_vars

\* Ctrl-C in --plugin mode while the plugin was running
C15_Witness ==
    /\ pc = "exit"
    /\ mode = "plugin"
    /\ ser.id > 0
    /\ ~ser.is_open
    /\ ~ser.failed
    /\ Len(manager.instances) = 1
    /\ manager.instances[1].inits = 1
    /\ manager.instances[1].cleanups = 1
    /\ ~manager.instances[1].is_running

----------------------------------------------------------------------------
(* find_msc_device / wait_for_msc_device and the legacy listener (ScanSpec) *)

ScanInit == manager = NewManager /\ SchedIdle /\ scan = ScanStart /\ AuxIdle

\* msc_display_lib.py:125-126, 87  (re)enter find_msc_device: enumerate the ports
FindStart ==
    /\ scan.spc \in {"idle", "sleeping"}
    /\ scan.scans < MaxScans \/ scan.device # 0
    /\ scan' = [scan EXCEPT !.spc = "scanning", !.idx = 1,
                            !.scans = IF @ < MaxScans THEN @ + 1 ELSE @,
                            !.acks = [p \in 1..MaxPorts |-> 0], !.adopted = 0,
                            !.burst = <<>>, !.confirm = <<>>, !.tried = "none"]
    /\ UNCHANGED <<manager, schedVars, auxVars>>

\* the handles left open when the local name ser is rebound or dropped: a handle
\* that was never closed is closed by its finalizer if the interpreter runs it
\* (fin), and stays open otherwise
Unreferenced(fin) ==
    IF scan.held # 0 /\ fin THEN scan.open \ {scan.held} ELSE scan.open

\* whether the finalizer of the handle still bound to ser runs
Finalizations == IF scan.held # 0 THEN BOOLEAN ELSE {FALSE}

\* the outcome of one iteration of the for loop, msc_display_lib.py:89-107
\* open_failed: Serial() raised; read_raised / ack_raised / confirm_raised: the
\* bare except at line 106 continues without ser.close(); empty / no_msn /
\* no_confirm: ser.close() at line 105; adopted: return ser
PortResult(how, burst, confirm, fin) ==
    LET i == scan.idx
        opened == how # "open_failed"
        leaked == how \in {"read_raised", "ack_raised", "confirm_raised"}
        acked == how \in {"confirm_raised", "no_confirm", "adopted"}
        before == IF opened THEN Unreferenced(fin) ELSE scan.open
    IN [scan EXCEPT
          !.spc = IF how = "adopted" THEN "connected" ELSE "scanning",
          !.idx = IF how = "adopted" THEN i ELSE i + 1,
          !.open = IF leaked \/ how = "adopted" THEN before \cup {i} ELSE before,
          !.held = IF leaked THEN i ELSE IF opened THEN 0 ELSE @,
          !.acks[i] = IF acked THEN @ + 1 ELSE @,
          !.adopted = IF how = "adopted" THEN i ELSE 0,
          !.burst = burst, !.confirm = confirm, !.tried = how]

\* the port being tried hosts a device that answers the handshake
Responsive == scan.device = scan.idx

\* the bursts that pass the test of line 98, and those that do not
AcceptedBursts == {burst \in Bursts : burst_accepted(burst)}

RejectedBursts == Bursts \ AcceptedBursts

\* the replies that pass the test of line 102, and those that do not
AcceptedConfirms == {confirm \in Confirms : confirm_accepted(confirm)}

RejectedConfirms == Confirms \ AcceptedConfirms

\* msc_display_lib.py:89-107  open the port, read the burst, acknowledge, confirm
TryPort ==
    /\ scan.spc = "scanning"
    /\ scan.idx <= MaxPorts
    /\ \E fin \in Finalizations :
        \/ ~Responsive /\ scan' = PortResult("open_failed", <<>>, <<>>, fin)
        \/ ~Responsive /\ scan' = PortResult("read_raised", <<>>, <<>>, fin)
        \/ /\ ~Responsive
           /\ \E burst \in RejectedBursts :
                 scan' = PortResult(IF burst = <<>> THEN "empty" ELSE "no_msn",
                                    burst, <<>>, fin)
        \/ \E burst \in AcceptedBursts :
              \/ ~Responsive /\ scan' = PortResult("ack_raised", burst, <<>>, fin)
              \/ ~Responsive /\ scan' = PortResult("confirm_raised", burst, <<>>, fin)
              \/ /\ ~Responsive
                 /\ \E confirm \in RejectedConfirms :
                       scan' = PortResult("no_confirm", burst, confirm, fin)
              \/ \E confirm \in AcceptedConfirms :
                    scan' = PortResult("adopted", burst, confirm, fin)
    /\ UNCHANGED <<manager, schedVars, auxVars>>

\* mutant of FindNone: wait_for_msc_device gives up after a scan without a device
FindNone_gives_up ==
    /\ scan.spc = "scanning"
    /\ scan.idx > MaxPorts
    /\ scan' = [scan EXCEPT !.spc = "connected", !.held = 0]
    /\ UNCHANGED <<manager, schedVars, auxVars>>

\* msc_display_lib.py:109, 127-130  no port answered: return None, sleep, retry
FindNone ==
    /\ scan.spc = "scanning"
    /\ scan.idx > MaxPorts
    /\ \E fin \in Finalizations :
          scan' = [scan EXCEPT !.spc = "sleeping", !.open = Unreferenced(fin),
                               !.held = 0]
    /\ UNCHANGED <<manager, schedVars, auxVars>>

\* a device is plugged into one of the ports while wait_for_msc_device runs;
\* from then on that port answers the handshake (comports(), line 87)
Plug ==
    /\ scan.spc \in {"idle", "scanning", "sleeping"}
    /\ scan.device = 0
    /\ \E k \in 1..MaxPorts : scan' = [scan EXCEPT !.device = k]
    /\ UNCHANGED <<manager, schedVars, auxVars>>

\* the legacy loop has handled port lidx and goes on to the next one
LegacyNextPort(how, burst, registry) ==
    [scan EXCEPT !.spc = IF scan.lidx = MaxPorts THEN "legacy_done" ELSE "legacy",
                 !.lidx = @ + 1, !.ltried = how, !.lburst = burst,
                 !.registry = registry]

\* the legacy loop is left by break or by an exception that nothing catches
LegacyStop(how, outcome, burst, registry) ==
    [scan EXCEPT !.spc = outcome, !.ltried = how, !.lburst = burst,
                 !.registry = registry]

\* legacy program: one iteration of the port loop of Get_MSN_Device (1499-1529)
LegacyListen ==
    /\ \/ scan.spc = "idle" /\ scan.scans = 0 /\ scan.device = 0
       \/ scan.spc = "legacy"
    /\ scan.lidx <= MaxPorts
    /\ \/ scan' = LegacyNextPort("open_failed", <<>>, scan.registry)
       \/ scan' = LegacyStop("read_raised", "legacy_done", <<>>, scan.registry)
       \/ \E burst \in Bursts :
             LET found == Get_MSN_Device(scan.lidx, burst)
                 registry == scan.registry \o found
             IN IF ~gbk_decodable(burst)
                THEN scan' = LegacyStop("decode_raised", "legacy_raised", burst,
                                        scan.registry)
                ELSE IF found = <<>>
                THEN scan' = LegacyNextPort(IF burst = <<>> THEN "empty"
                                            ELSE "no_marker", burst, scan.registry)
                ELSE \/ scan' = LegacyStop("confirm_raised", "legacy_raised",
                                           burst, registry)
                     \/ \E confirm \in Confirms :
                           IF confirm = <<>>
                           THEN scan' = LegacyStop("confirm_empty", "legacy_raised",
                                                   burst, registry)
                           ELSE scan' = LegacyNextPort("registered", burst, registry)
    /\ UNCHANGED <<manager, schedVars, auxVars>>

ScanNext ==
    \/ FindStart
    \/ TryPort
    \/ FindNone
    \/ Plug
    \/ LegacyListen

ScanSpec == ScanInit /\ [][ScanNext]_vars

\* wait_for_msc_device keeps running: its thread is scheduled
ScanLiveSpec ==
    ScanInit /\ [][ScanNext]_vars /\ WF_vars(FindStart \/ TryPort \/ FindNone)

\* a null byte followed by "MSN" and two ASCII digits occurs in the bytes
HasVersionMarker(recv) ==
    \E n \in 1..(Len(recv) - 5) :
        /\ recv[n] = NUL
        /\ SubSeq(recv, n + 1, n + 3) = MSN
        /\ IsDigit(recv[n + 4]) /\ IsDigit(recv[n + 5])

\* C9: find_msc_device adopts a port only if the burst read from it contains
\* null + "MSN" + two ASCII digits and the bytes read after the acknowledgement
\* contain "MSNCN"; a port for which both hold is adopted.
C9_AdoptOnlyAfterFullHandshake ==
    /\ scan.adopted # 0 =>
          /\ HasVersionMarker(scan.burst)
          /\ Contains(scan.confirm, MSNCN)
    /\ scan.tried \in {"empty", "no_msn"} => ~HasVersionMarker(scan.burst)
    /\ scan.tried = "no_confirm" => ~Contains(scan.confirm, MSNCN)

\* C10: the version recorded for a discovered device is the number written by
\* the two ASCII digits that follow the matched null + "MSN" marker, wherever
\* in the burst the marker occurs.
C10_VersionFromMatchedMarker ==
    scan.ltried \in {"registered", "confirm_raised", "confirm_empty"} =>
        scan.registry[Len(scan.registry)].version
            = LegacyVersion_at_match(scan.lburst)

\* C11: in one scan the first port whose handshake succeeds is adopted and no
\* later port is opened; every port opened earlier that did not complete the
\* handshake (a read or write on it raised included) is closed before the next
\* candidate is tried, so at the end of a scan at most one port is open.
C11_FailedPortsClosedBeforeNext ==
    /\ scan.spc = "scanning" => scan.open = {}
    /\ scan.spc = "sleeping" => scan.open = {}
    /\ scan.spc = "connected" => scan.open = {scan.adopted} /\ scan.idx = scan.adopted

\* C12: a candidate port that cannot be opened, emits nothing or emits an
\* invalid burst never stops the scan: when a scan in which no port completed
\* the handshake ends, every candidate port was attempted (find_msc_device and
\* the legacy Get_MSN_Device).
C12_FailedPortNeverStopsScan ==
    /\ scan.spc = "sleeping" => scan.idx = MaxPorts + 1
    /\ (/\ scan.spc \in {"legacy_done", "legacy_raised"}
        /\ scan.ltried \in {"open_failed", "empty", "no_marker", "decode_raised"})
          => scan.lidx = MaxPorts + 1

\* find_msc_device's handshake succeeded on the adopted port: the burst had
\* "MSN", the acknowledgement was written and "MSNCN" came back
HandshakeSucceeded ==
    /\ scan.adopted \in 1..MaxPorts
    /\ scan.adopted \in scan.open
    /\ burst_accepted(scan.burst)
    /\ scan.acks[scan.adopted] = 1
    /\ confirm_accepted(scan.confirm)

\* C13: wait_for_msc_device returns only a session on which the handshake
\* succeeded; a scan in which no port completes it is followed by the retry
\* sleep and another scan, never by a return; and once a port answers the
\* handshake in every scan, wait_for_msc_device eventually returns.
C13_WaitReturnsHandshakedSession ==
    /\ [](scan.spc = "connected" => HandshakeSucceeded)
    /\ [][scan.spc = "sleeping" => scan'.spc \in {"sleeping", "scanning"}]_vars
    /\ [][(scan.spc = "scanning" /\ scan'.spc # "scanning")
            => \/ scan'.spc = "connected" /\ scan'.adopted = scan.idx
               \/ scan'.spc = "sleeping" /\ scan.idx > MaxPorts]_vars
    /\ ((scan.device # 0) ~> (scan.spc = "connected"))

\* returned after a scan that found nothing, a retry sleep and a rescan, by a
\* device plugged in meanwhile
C13_Witness ==
    /\ scan.spc = "connected"
    /\ scan.scans = 2
    /\ scan.device = scan.adopted
    /\ HandshakeSucceeded

\* the acknowledgement frame is written to port p in this step
AckWritten(p) == scan'.acks[p] > scan.acks[p]

\* in every step of a scan the acknowledgement goes to the port being tried,
\* at most once per port per scan, and never to a port whose read was empty
AckOncePerTriedPort ==
    /\ [][\A p \in 1..MaxPorts :
            AckWritten(p) => (scan.spc = "scanning" /\ p = scan.idx)]_vars
    /\ [](\A p \in 1..MaxPorts : scan.acks[p] <= 1)
    /\ [][(scan.spc = "scanning" /\ scan'.spc # "sleeping" /\ scan'.burst = <<>>) =>
            scan'.acks = scan.acks]_vars

----------------------------------------------------------------------------
(* select_plugin_interactive and its keep-alive thread (SelSpec) *)

SelInit == manager = NewManager /\ SchedIdle /\ scan = ScanIdle /\ AuxIdle

\* main.py:102-121  print the menu, set the flag, start the daemon thread
SelStartWorker ==
    /\ sel.fpc = "menu"
    /\ sel' = [sel EXCEPT !.fpc = "input", !.wpc = "while",
                          !.keep_alive_active = TRUE]
    /\ UNCHANGED <<manager, schedVars, scan, zfs, wire, text, api>>

\* main.py:110  while keep_alive_active
WorkerWhile ==
    /\ sel.wpc = "while"
    /\ sel' = [sel EXCEPT !.wpc = IF sel.keep_alive_active THEN "if" ELSE "dead"]
    /\ UNCHANGED <<manager, schedVars, scan, zfs, wire, text, api>>

\* main.py:111  if time.time() - last_keepalive > 3
WorkerIf ==
    /\ sel.wpc = "if"
    /\ \E due \in BOOLEAN :
          sel' = [sel EXCEPT !.wpc = IF due /\ sel.wrote < MaxWorkerFrames
                                    THEN "write" ELSE "sleep"]
    /\ UNCHANGED <<manager, schedVars, scan, zfs, wire, text, api>>

\* main.py:112-116  send_keep_alive(manager.ser); an exception is swallowed
WorkerWrite ==
    /\ sel.wpc = "write"
    /\ \E ok \in BOOLEAN :
          sel' = [sel EXCEPT !.wpc = "sleep",
                            !.wrote = @ + 1,
                            !.log = IF ok THEN Append(@, "bg") ELSE @]
    /\ UNCHANGED <<manager, schedVars, scan, zfs, wire, text, api>>

\* main.py:117  time.sleep(0.5)
WorkerSleep ==
    /\ sel.wpc = "sleep"
    /\ sel' = [sel EXCEPT !.wpc = "while"]
    /\ UNCHANGED <<manager, schedVars, scan, zfs, wire, text, api>>

\* main.py:124-135, 147-150  input() returns or is interrupted; the flag is
\* cleared; 'q', an empty line and Ctrl-C return, a name goes on to the wake.
\* Another exception of input() (EOF) is not caught by `except
\* KeyboardInterrupt` and leaves the function with the flag as it was.
FgInput ==
    /\ sel.fpc = "input"
    /\ \E choice \in {"q", "", "^C", "EOF"} \cup TypedNames :
          sel' = IF choice = "EOF"
                 THEN [sel EXCEPT !.fpc = "raised"]
                 ELSE [sel EXCEPT !.keep_alive_active = FALSE,
                                  !.fpc = IF choice \in {"q", "", "^C"}
                                          THEN "return" ELSE "wake",
                                  !.cls = IF choice \in {"q", "", "^C"}
                                          THEN "None" ELSE get_plugin_by_name(choice)]
    /\ UNCHANGED <<manager, schedVars, scan, zfs, wire, text, api>>

\* main.py:138  wake_from_screensaver(manager.ser): one of its three frames
FgWake ==
    /\ sel.fpc = "wake"
    /\ sel' = [sel EXCEPT !.log = Append(@, "wake"),
                          !.n = IF @ + 1 = WakeFrames THEN 0 ELSE @ + 1,
                          !.fpc = IF sel.n + 1 < WakeFrames THEN "wake"
                                  ELSE IF sel.cls = "None" THEN "return"
                                  ELSE "init"]
    /\ UNCHANGED <<manager, schedVars, scan, zfs, wire, text, api>>

\* main.py:141 -> switch_plugin -> start() -> initialize(): one of its frames
FgInit ==
    /\ sel.fpc = "init"
    /\ sel' = [sel EXCEPT !.log = Append(@, "init"),
                          !.n = IF @ + 1 = InitFrames(sel.cls) THEN 0 ELSE @ + 1,
                          !.fpc = IF sel.n + 1 < InitFrames(sel.cls) THEN "init"
                                  ELSE "return"]
    /\ UNCHANGED <<manager, schedVars, scan, zfs, wire, text, api>>

SelNext ==
    \/ SelStartWorker
    \/ WorkerWhile
    \/ WorkerIf
    \/ WorkerWrite
    \/ WorkerSleep
    \/ FgInput
    \/ FgWake
    \/ FgInit

SelSpec == SelInit /\ [][SelNext]_vars

\* C14: the keep-alive worker is mutually exclusive with foreground writes: no
\* worker frame is written while the foreground thread is inside
\* wake_from_screensaver or a plugin's initialize, and none lies between the
\* frames of one foreground multi-frame operation.
C14_WorkerExcludedFromForeground ==
    \A i, j, k \in DOMAIN sel.log :
        (i < j /\ j < k /\ sel.log[j] = "bg")
            => ~(sel.log[i] = sel.log[k] /\ sel.log[i] # "bg")

\* select_plugin_interactive has returned or has been left by an exception
SelFinished == sel.fpc \in {"return", "raised"}

\* C38: on every way select_plugin_interactive can finish (plugin chosen, empty
\* input, unknown name, 'q', KeyboardInterrupt, another exception from input)
\* the keep-alive worker is told to stop, and it writes no keep-alive frame
\* after the function has returned.
C38_WorkerStopsOnReturn ==
    /\ [](SelFinished => ~sel.keep_alive_active)
    /\ [][SelFinished => sel'.log = sel.log]_vars

----------------------------------------------------------------------------
(* ZFSPagesPlugin driven by run_plugin_loop (ZfsSpec) *)

ZfsInit == manager = NewManager /\ SchedIdle /\ scan = ScanIdle /\ AuxIdle

\* switch_plugin: a new instance is constructed and started
ZStart ==
    /\ zfs.phase \in {"new", "stopped"}
    /\ \E reply \in BaselineReplies :
          zfs' = [ZFSPages_initialize(NewZfs(zfs.now), read_adc_channel(reply))
                    EXCEPT !.baseline_failed = AdcFailed(reply)]
    /\ UNCHANGED <<manager, schedVars, scan, sel, wire, text, api>>

\* one iteration of run_plugin_loop (main.py:63-90): update(), then the wait
\* loop; a failed update ends the loop
ZUpdate ==
    /\ zfs.phase = "running"
    /\ zfs.now + SchedulerPeriod(ZfsUpdateInterval) <= MaxTime
    /\ \E reply \in AdcReplies, renderOk \in BOOLEAN :
          LET z == [ZFSPages_update(zfs, read_adc_channel(reply), renderOk)
                      EXCEPT !.adc_failed = AdcFailed(reply)]
          IN zfs' = IF z.result
                    THEN [z EXCEPT !.now = @ + SchedulerPeriod(ZfsUpdateInterval)]
                    ELSE [z EXCEPT !.phase = "failed"]
    /\ UNCHANGED <<manager, schedVars, scan, sel, wire, text, api>>

\* manager.cleanup() after a failed update (main.py:72), a disconnect or Ctrl-C
ZCleanup ==
    /\ zfs.phase \in {"running", "failed"}
    /\ zfs' = ZFSPages_cleanup(zfs)
    /\ UNCHANGED <<manager, schedVars, scan, sel, wire, text, api>>

ZfsNext ==
    \/ ZStart
    \/ ZUpdate
    \/ ZCleanup

ZfsSpec == ZfsInit /\ [][ZfsNext]_vars

\* the latest step was an update() and the instance has not been cleaned up
Updated == zfs.updates > 0 /\ zfs.phase \in {"running", "failed"}

\* C16: driven by the scheduler with page_duration = 4 and no button presses,
\* the page index cycles 0, 1, 2, 0, ... and each page change happens 4 seconds
\* after the previous one (the first one 4 seconds after activation).
C16_PagesRotateEveryFourSeconds ==
    (Updated /\ ~zfs.pressed_ever /\ zfs.page_duration = 4) =>
        /\ zfs.by_timer => zfs.current_page = (zfs.before_page + 1) % 3
        /\ ~zfs.by_timer => zfs.current_page = zfs.before_page
        /\ zfs.gap # -1 => zfs.gap = 4

\* the reading is below the threshold fixed at activation
Below(adc_value) == adc_value < zfs.baseline - 125

\* C17: a button press is edge-triggered against the threshold fixed at
\* activation (baseline - 125): an update() that sees the ADC value go from
\* not below to below the threshold advances the page by exactly one (mod 3)
\* and restarts the rotation timer; consecutive updates that keep seeing it
\* below do not advance the page because of the button; update() never
\* changes button_threshold.
C17_ButtonEdgeAdvancesOnce ==
    Updated =>
        /\ (~Below(zfs.prev_adc) /\ Below(zfs.adc)) =>
              /\ zfs.by_button
              /\ zfs.current_page = (zfs.before_page + 1) % 3
              /\ zfs.last_page_change = zfs.at
        /\ (Below(zfs.prev_adc) /\ Below(zfs.adc)) => ~zfs.by_button
        /\ zfs.button_threshold = zfs.baseline - 125

\* what C18 says of the latest update()
PageChangeRendered ==
    /\ zfs.current_page # zfs.before_page =>
          zfs.rendered = zfs.current_page /\ ~zfs.first_draw
    /\ (zfs.current_page = zfs.before_page /\ ~zfs.before_first_draw) =>
          zfs.rendered = -1

C36_AtMostOneAdvancePerUpdate ==
    (Updated /\ zfs.page_duration > 0) =>
        /\ ~(zfs.by_button /\ zfs.by_timer)
        /\ zfs.current_page \in {zfs.before_page, NextPage(zfs.before_page)}
        /\ zfs.current_page = NextPage(zfs.before_page) <=>
              (zfs.by_button \/ zfs.by_timer)

\* a button edge seen by the update() in which the rotation timer had run out
C36_Witness ==
    /\ Updated /\ zfs.page_duration > 0
    /\ zfs.due
    /\ zfs.by_button /\ ~zfs.by_timer
    /\ zfs.current_page = NextPage(zfs.before_page)
    /\ zfs.last_page_change = zfs.at

\* C39: an I/O exception or a short (< 6 byte) response while reading ADC
\* channel 9 is swallowed: _read_adc_channel returns 0, a value of 0 is never
\* treated as a button press, and update() does not fail because of it; if the
\* baseline read at activation fails (0), the threshold is -125 and no later
\* reading is ever treated as a press.
C39_AdcFailureIsSwallowed ==
    /\ Updated =>
          /\ zfs.adc_failed => zfs.adc = 0
          /\ zfs.adc = 0 => (~zfs.by_button /\ ~zfs.button_was_pressed)
          /\ (zfs.adc_failed /\ ~zfs.before_first_draw /\ ~zfs.by_timer) =>
                (zfs.result /\ zfs.phase = "running" /\ zfs.rendered = -1)
          /\ (zfs.adc_failed /\ ~zfs.result) => (zfs.first_draw /\ zfs.rendered = -1)
    /\ zfs.phase \in {"running", "failed"} =>
          /\ zfs.baseline_failed => zfs.baseline = 0
          /\ zfs.baseline = 0 =>
                /\ zfs.button_threshold = 0 - ButtonMargin
                /\ ~zfs.pressed_ever /\ ~zfs.by_button /\ ~zfs.button_was_pressed

\* an update() whose ADC read failed, on a plugin with a working calibration,
\* returned True without a press and without drawing
C39_Witness ==
    /\ Updated /\ zfs.adc_failed /\ zfs.adc = 0
    /\ ~zfs.baseline_failed /\ zfs.baseline = 1000
    /\ zfs.prev_adc = 1000
    /\ zfs.result /\ ~zfs.by_button /\ zfs.rendered = -1

----------------------------------------------------------------------------
(* draw_pixel, draw_rect, clear_screen, send_keep_alive (WireSpec) *)

WireInit ==
    /\ manager = NewManager /\ SchedIdle /\ scan = ScanIdle
    /\ sel = SelIdle /\ zfs = ZfsIdle /\ text = TextIdle /\ api = ApiIdle
    /\ \E x \in Operands, y \in Operands, width \in Operands,
          height \in Operands, color \in Operands :
          wire = NewCall(x, y, width, height, color)

\* msc_display_lib.py:168-185
WDrawPixel ==
    /\ wire.op = "none"
    /\ wire' = Called(wire, "draw_pixel", draw_pixel(wire.x, wire.y, wire.color))
    /\ UNCHANGED <<manager, schedVars, scan, sel, zfs, text, api>>

\* msc_display_lib.py:188-207
WDrawRect ==
    /\ wire.op = "none"
    /\ \E resp \in Responses :
          wire' = Read(Called(wire, "draw_rect",
                              draw_rect(wire.x, wire.y, wire.width, wire.height,
                                        wire.color)), resp)
    /\ UNCHANGED <<manager, schedVars, scan, sel, zfs, text, api>>

\* msc_display_lib.py:210-219
WClearScreen ==
    /\ wire.op = "none"
    /\ wire' = Called([wire EXCEPT !.x = 0, !.y = 0, !.width = 160, !.height = 80],
                      "clear_screen", clear_screen(wire.color))
    /\ UNCHANGED <<manager, schedVars, scan, sel, zfs, text, api>>

\* msc_display_lib.py:151-156
WSendKeepAlive ==
    /\ wire.op = "none"
    /\ wire' = Called(wire, "send_keep_alive", <<KeepAliveFrame>>)
    /\ UNCHANGED <<manager, schedVars, scan, sel, zfs, text, api>>

\* plugin_metrics.py:160-163  _display_metrics calls draw_rect again whatever
\* the draw_rect before it read
WDrawRectAgain ==
    /\ wire.op = "draw_rect" /\ ~wire.raised
    /\ wire.calls < MaxDraws
    /\ wire' = Read(Called(wire, "draw_rect",
                           draw_rect(wire.x, wire.y, wire.width, wire.height,
                                     wire.color)), wire.resp)
    /\ UNCHANGED <<manager, schedVars, scan, sel, zfs, text, api>>

\* msc_display_lib.py:133-147  is_device_connected: send_keep_alive in a
\* try/except; wok = ser.write did not raise
WIsDeviceConnected ==
    /\ wire.op = "none"
    /\ \E wok \in BOOLEAN, resp \in Responses :
          wire' = [wire EXCEPT !.op = "is_device_connected",
                               !.frames = IF wok THEN <<KeepAliveFrame>> ELSE <<>>,
                               !.resp = IF wok THEN resp ELSE <<>>,
                               !.connected = is_device_connected(~wok),
                               !.calls = @ + 1]
    /\ UNCHANGED <<manager, schedVars, scan, sel, zfs, text, api>>

WireNext ==
    \/ WIsDeviceConnected
    \/ WDrawRectAgain
    \/ WDrawPixel
    \/ WDrawRect
    \/ WClearScreen
    \/ WSendKeepAlive

WireSpec == WireInit /\ [][WireNext]_vars

\* the 16-bit operand whose high byte is at position i of the frame
Word(frame, i) == frame[i] * 256 + frame[i + 1]

InRange(v) == v \in 0..65535

\* C19: draw_rect(x,y,w,h,color), and so clear() = draw_rect(0,0,160,80,BLACK),
\* writes exactly four frames in this order: SET_POSITION(x,y), SET_SIZE(w,h),
\* SET_COLOR(fg=color) (fg=0, bg=0 for BLACK), DRAW_COMMAND with sub-opcode 11.
C19_DrawRectFourFrames ==
    (wire.op \in {"draw_rect", "clear_screen"} /\ ~wire.raised) =>
        /\ Len(wire.frames) = 4
        /\ wire.frames[1] = <<2, 0, wire.x \div 256, wire.x % 256,
                               wire.y \div 256, wire.y % 256>>
        /\ wire.frames[2] = <<2, 1, wire.width \div 256, wire.width % 256,
                               wire.height \div 256, wire.height % 256>>
        /\ SubSeq(wire.frames[3], 1, 2) = <<2, 2>>
        /\ Word(wire.frames[3], 3) = wire.color
        /\ SubSeq(wire.frames[4], 1, 3) = <<2, 3, 11>>

\* C20: every frame written by draw_pixel, draw_rect and send_keep_alive is
\* exactly 6 bytes, each in 0..255; each 16-bit operand v in 0..65535 is sent
\* high byte first so that hi * 256 + lo = v; draw_pixel(x,y,color) writes
\* SET_POSITION(x,y), SET_SIZE(1,1), DRAW_COMMAND(11,color) in that order.
C20_FramesSixBytesBigEndian ==
    /\ \A i \in 1..Len(wire.frames) :
          /\ Len(wire.frames[i]) = 6
          /\ \A k \in 1..6 : wire.frames[i][k] \in 0..255
    /\ (/\ wire.op = "draw_pixel"
        /\ InRange(wire.x) /\ InRange(wire.y) /\ InRange(wire.color)) =>
          /\ ~wire.raised
          /\ Len(wire.frames) = 3
          /\ SubSeq(wire.frames[1], 1, 2) = <<2, 0>>
          /\ Word(wire.frames[1], 3) = wire.x
          /\ Word(wire.frames[1], 5) = wire.y
          /\ wire.frames[2] = <<2, 1, 0, 1, 0, 1>>
          /\ SubSeq(wire.frames[3], 1, 3) = <<2, 3, 11>>
          /\ Word(wire.frames[3], 4) = wire.color
    /\ (/\ wire.op = "draw_rect"
        /\ InRange(wire.x) /\ InRange(wire.y) /\ InRange(wire.color)
        /\ InRange(wire.width) /\ InRange(wire.height)) =>
          /\ ~wire.raised
          /\ SubSeq(wire.frames[1], 1, 2) = <<2, 0>>
          /\ Word(wire.frames[1], 3) = wire.x
          /\ Word(wire.frames[1], 5) = wire.y
          /\ SubSeq(wire.frames[2], 1, 2) = <<2, 1>>
          /\ Word(wire.frames[2], 3) = wire.width
          /\ Word(wire.frames[2], 5) = wire.height
          /\ Word(wire.frames[Len(wire.frames)], 4) = wire.color
    /\ wire.op = "send_keep_alive" => wire.frames = << <<2, 3, 10, 0, 0, 0>> >>

\* draw_pixel(256, 255, 0xFFFF): both bytes of an operand matter
C20_Witness ==
    /\ wire.op = "draw_pixel"
    /\ wire.x = 256 /\ wire.y = 255 /\ wire.color = 65535
    /\ wire.frames = << <<2, 0, 1, 0, 0, 255>>, <<2, 1, 0, 1, 0, 1>>,
                        <<2, 3, 11, 255, 255, 0>> >>

\* the first two bytes of the response echo opcode and sub-opcode of the frame
Echoes(resp, cmd) == Len(resp) >= 2 /\ resp[1] = cmd[1] /\ resp[2] = cmd[2]

\* C24: if, after a frame is written, the read within the timeout returns zero
\* bytes, the session is treated as "device gone": the connectivity check
\* reports disconnected (and the scheduler re-enters scanning).
C24_SilentDeviceIsGone ==
    (/\ wire.op = "is_device_connected"
     /\ wire.frames # <<>>
     /\ wire.resp = <<>>) => ~wire.connected

\* C25: if the first two bytes of a response frame do not echo the opcode and
\* sub-opcode of the request just sent, the session is invalidated (the call
\* signals it) and no further draw is performed on it.
C25_MismatchInvalidatesSession ==
    /\ (/\ wire.op = "draw_rect" /\ wire.calls = 1
        /\ Len(wire.frames) = 3 /\ Len(wire.resp) >= 2
        /\ ~Echoes(wire.resp, wire.frames[3])) => wire.raised
    /\ (wire.op = "draw_rect" /\ wire.calls > 1 /\ Len(wire.prev) >= 2) =>
          Echoes(wire.prev, <<2, 3>>)

----------------------------------------------------------------------------
(* rotate_bitmap_90, draw_char_bitmap, draw_text_bitmap (TextSpec) *)

TextInit ==
    /\ manager = NewManager /\ SchedIdle /\ scan = ScanIdle
    /\ sel = SelIdle /\ zfs = ZfsIdle /\ wire = WireIdle /\ api = ApiIdle
    /\ \/ \E bitmap \in Bitmaps :
             text = NewText("bitmap", 0, 0, <<>>, 1, FALSE, 0, bitmap)
       \/ \E x \in Origins, y \in Origins, chars \in Texts, scale \in 1..MaxScale,
             rotated \in BOOLEAN, failAt \in FailPoints :
             text = NewText("text", x, y, chars, scale, rotated, failAt, <<>>)

\* msc_display_lib.py:222-239
TRotate ==
    /\ text.kind = "bitmap" /\ text.op = "none"
    /\ text' = [text EXCEPT !.op = "rotate_bitmap_90", !.returned = TRUE,
                            !.result = rotate_bitmap_90(text.bitmap)]
    /\ UNCHANGED <<manager, schedVars, scan, sel, zfs, wire, api>>

\* msc_display_lib.py:242-286
TDrawChar ==
    /\ text.kind = "text" /\ text.op = "none" /\ Len(text.chars) = 1
    /\ LET r == draw_char_bitmap(text.x, text.y, text.chars[1], White,
                                 text.scale, text.rotated, 1)
       IN text' = TextCalled(text, "draw_char_bitmap",
                             [ret |-> r.ret, draws |-> r.draws,
                              calls |-> << [char |-> text.chars[1], x |-> text.x,
                                            y |-> text.y] >>])
    /\ UNCHANGED <<manager, schedVars, scan, sel, zfs, wire, api>>

\* msc_display_lib.py:289-314
TDrawText ==
    /\ text.kind = "text" /\ text.op = "none"
    /\ text' = TextCalled(text, "draw_text_bitmap",
                          draw_text_bitmap(text.x, text.y, text.chars, White,
                                           text.scale, text.rotated))
    /\ UNCHANGED <<manager, schedVars, scan, sel, zfs, wire, api>>

TextNext ==
    \/ TRotate
    \/ TDrawChar
    \/ TDrawText

TextSpec == TextInit /\ [][TextNext]_vars

\* C21: for every character (in the font table, in either case, or unknown)
\* and every scale >= 1, a draw_char_bitmap call that returns gives x + 6*scale
\* when unrotated and y + 8*scale when rotated; for an unknown character it
\* returns having written no frame at all.
C21_CharAdvance ==
    text.op = "draw_char_bitmap" =>
        /\ text.returned =>
              text.ret = IF text.rotated THEN text.y + 8 * text.scale
                         ELSE text.x + 6 * text.scale
        /\ text.chars[1] \in {"?", "~"} => text.returned /\ text.frames = <<>>

\* a lower-case character of the table drawn rotated at scale 2, and returned
C21_Witness ==
    /\ text.op = "draw_char_bitmap" /\ text.returned
    /\ text.chars = <<"i">> /\ text.rotated /\ text.scale = 2
    /\ text.y = 100 /\ text.ret = 116
    /\ text.frames # <<>>

\* C22: for a text of n characters, unrotated draw_text_bitmap draws the
\* characters in string order at x0, x0+6*scale, ..., with y fixed, and returns
\* x0 + 6*scale*n; rotated draw_text_bitmap draws the characters in reverse
\* string order (last character first) at y0, y0+8*scale, ..., with x fixed,
\* and returns y0 + 8*scale*n.
C22_TextOrderAndAdvance ==
    (text.op = "draw_text_bitmap" /\ text.returned) =>
        LET n == Len(text.chars)
        IN /\ Len(text.calls) = n
           /\ ~text.rotated =>
                 /\ \A k \in 1..n :
                       text.calls[k] = [char |-> text.chars[k],
                                        x |-> text.x + 6 * text.scale * (k - 1),
                                        y |-> text.y]
                 /\ text.ret = text.x + 6 * text.scale * n
           /\ text.rotated =>
                 /\ \A k \in 1..n :
                       text.calls[k] = [char |-> text.chars[n + 1 - k],
                                        x |-> text.x,
                                        y |-> text.y + 8 * text.scale * (k - 1)]
                 /\ text.ret = text.y + 8 * text.scale * n

\* "Ai" drawn rotated: "i" first at y0, then "A" at y0 + 8*scale
C22_Witness ==
    /\ text.op = "draw_text_bitmap" /\ text.returned
    /\ text.chars = <<"A", "i">> /\ text.rotated /\ text.scale = 1
    /\ text.x = 0 /\ text.y = 100
    /\ text.calls = << [char |-> "i", x |-> 0, y |-> 100],
                       [char |-> "A", x |-> 0, y |-> 108] >>
    /\ text.ret = 116

\* C23: for every 5-column bitmap b, rotate_bitmap_90(b) has exactly 7 entries,
\* each in 0..31, and bit (4-col) of entry row is set iff bit row of b[col] is
\* set, for row in 0..6 and col in 0..4; for the glyph 'I' =
\* [0x00,0x41,0x7F,0x41,0x00] the result is [0x0E,0x04,0x04,0x04,0x04,0x04,0x0E].
C23_RotateBitmap ==
    text.op = "rotate_bitmap_90" =>
        /\ Len(text.result) = 7
        /\ \A row \in 0..6 :
              /\ text.result[row + 1] \in 0..31
              /\ \A col \in 0..4 :
                    ((text.result[row + 1] \div 2 ^ (4 - col)) % 2 = 1)
                        <=> ((text.bitmap[col + 1] \div 2 ^ row) % 2 = 1)
        /\ text.bitmap = <<0, 65, 127, 65, 0>> =>
              text.result = <<14, 4, 4, 4, 4, 4, 14>>

\* the glyph 'I' rotated
C23_Witness ==
    /\ text.op = "rotate_bitmap_90"
    /\ text.bitmap = <<0, 65, 127, 65, 0>>
    /\ text.result = <<14, 4, 4, 4, 4, 4, 14>>

====
